---- MODULE Spec2Model ----
(***************************************************************************)
(* Cross-exchange arbitrage bot (src/arbi250401/src/ArbitrageBot.js).      *)
(*                                                                         *)
(* The bot runs on the single-threaded JavaScript event loop: a handler    *)
(* runs without interruption up to its next `await` on a venue call.  One  *)
(* action of the model is therefore one such uninterrupted stretch: the    *)
(* firing of the interval timer, the arrival of a venue response, a push   *)
(* of an order book, a call of start() or stop().  An `await` on a value   *)
(* that is already resolved only yields to the micro-task queue and lets   *)
(* no timer or network callback in; it is not a scheduling point here.     *)
(*                                                                         *)
(* Numbers: prices are integers, and every value the code computes with    *)
(* decimal.js is kept as an exact fraction <<n, d>> in lowest terms with   *)
(* d > 0 (the 20-digit rounding of decimal.js and the final conversion to  *)
(* a double are below the resolution of the prices used here).             *)
(***************************************************************************)
EXTENDS Integers, Sequences, FiniteSets, TLC

(***************************************************************************)
(* Bounds of the model                                                     *)
(***************************************************************************)
\* number of times the interval timers fire in a behaviour; every firing
\* opens one call frame of checkArbitrageOpportunities
MaxFires == 1
\* the same, where overlapping firings of the timer are followed
MaxOverlap == 2
\* number of start()/stop() calls in a behaviour
MaxLifecycle == 2
\* direct calls of simulateArbitrage
MaxSimulations == 2
\* scan intervals of time that pass in a behaviour that follows the clock
MaxNow == 2
\* number of ticks in a behaviour that follows the history of opportunities
MaxTicks == 6
\* depositToken calls in one behaviour
MaxDeposits == 3

(***************************************************************************)
(* JavaScript values                                                       *)
(***************************************************************************)
\* null / undefined where a number is expected (getBestPrice's "no price")
Null == -999

\* a value that is no number: new Decimal(value) throws on it
NotNumeric == -998
\* !x
Falsy(x) == x = Null \/ x = 0
\* x <= 0: false when x does not convert to a number
NotPositiveNeverChecked(x) == FALSE
NotPositive(x) == x # NotNumeric /\ x <= 0

(***************************************************************************)
(* Exact fractions                                                         *)
(***************************************************************************)
Abs(x) == IF x < 0 THEN -x ELSE x

RECURSIVE GCD(_, _)
GCD(a, b) == IF b = 0 THEN a ELSE GCD(b, a % b)

Rat(n, d) ==
  LET s == IF d < 0 THEN -1 ELSE 1
      g == GCD(Abs(n), Abs(d))
  IN  IF n = 0 THEN <<0, 1>> ELSE <<(s * n) \div g, (s * d) \div g>>

RatInt(n) == <<n, 1>>
\* common factors are taken out before multiplying, so that the products
\* stay small
RatAdd(x, y) ==
  LET g == GCD(x[2], y[2])
  IN  Rat(x[1] * (y[2] \div g) + y[1] * (x[2] \div g), (x[2] \div g) * y[2])
RatNeg(x) == <<-x[1], x[2]>>
RatSub(x, y) == RatAdd(x, RatNeg(y))
RatMul(x, y) ==
  LET g1 == GCD(Abs(x[1]), y[2])
      g2 == GCD(Abs(y[1]), x[2])
  IN  Rat((x[1] \div g1) * (y[1] \div g2), (x[2] \div g2) * (y[2] \div g1))
RatDiv(x, y) ==
  RatMul(x, IF y[1] < 0 THEN <<-y[2], -y[1]>> ELSE <<y[2], y[1]>>)
RatLt(x, y) ==
  LET g == GCD(x[2], y[2])
  IN  x[1] * (y[2] \div g) < y[1] * (x[2] \div g)
RatGeq(x, y) == ~RatLt(x, y)

(***************************************************************************)
(* Configuration (constructor, ArbitrageBot.js:9-16)                       *)
(***************************************************************************)
\* minSpreadPercentage: 0.8
minSpreadPercentage == Rat(8, 10)
orderSizeUSD == 100
tradingPairs == <<"BTC/USDT">>
\* the fee of 0.1% per trade used by calculateSpread and simulateArbitrage
feeRatePercent == Rat(1, 100)
feeRate == Rat(1, 1000)

\* the connectors setupExchanges can create (lines 41-71), and the ones
\* it creates when only the keys of the first two are in the environment
AllVenues == <<"Binance", "KuCoin", "GateIo">>
ConfiguredVenues == <<"Binance", "KuCoin">>
\* the connectors of the Binance-Bitfinex edition of the bot
\* (src/unnamed/part_004, setupExchanges, lines 38-80)
LoopVenues == <<"Binance", "Bitfinex">>

(***************************************************************************)
(* What the venues can answer                                              *)
(***************************************************************************)
\* An order book is [bids, asks]: the prices of its levels, best first
\* (the bot never reads the quantities of the levels).
BookEmpty == [bids |-> <<>>, asks |-> <<>>]
BookLow == [bids |-> <<1000>>, asks |-> <<1001>>]
BookMid == [bids |-> <<1010>>, asks |-> <<1011>>]
BookHigh == [bids |-> <<1020, 1019>>, asks |-> <<1021>>]
\* a book whose best bid lies above its best ask, as the test's books do
BookCrossed == [bids |-> <<1020>>, asks |-> <<1001>>]
BookChoices == {BookEmpty, BookLow, BookMid, BookHigh}
\* the books getOrderBook returns where crossed books are followed
CrossedBooks == {BookLow, BookCrossed}
\* a book with one empty side
BookAsksOnly == [bids |-> <<>>, asks |-> <<1001>>]
\* the books getOrderBook returns where one-sided books are followed
SidedBooks == {BookAsksOnly, BookHigh}
\* the books the feeds push and the books getOrderBook returns while the
\* executions are followed
PushedBooks == {BookLow}
FetchedBooks == {BookEmpty, BookLow, BookHigh}

\* a filled market order as the connectors report it
Fill(q, pr) == [success |-> TRUE, executedQty |-> q, price |-> pr, threw |-> FALSE]
\* {success: false, error}
Rejected == [success |-> FALSE, executedQty |-> Null, price |-> Null, threw |-> FALSE]
\* the call threw (for instance an adapter without the method)
Threw == [success |-> FALSE, executedQty |-> Null, price |-> Null, threw |-> TRUE]
NoOrder == [success |-> FALSE, executedQty |-> Null, price |-> Null, threw |-> FALSE]
\* answers to marketBuy(pair, quoteAmount): a fill a little above the ask
\* that was quoted, a rejection, a throw
BuyAnswers == {Fill(2, 1002), Rejected, Threw}
\* answers to marketSell(pair, quantity): a fill a little below the bid that
\* was quoted, a rejection, a throw
SellAnswers(quantity) == {Fill(quantity, 1019), Rejected, Threw}

(***************************************************************************)
(* State                                                                   *)
(***************************************************************************)
VARIABLES
  paperTrading,   \* this.config.paperTrading
  exchanges,      \* this.exchanges: the names of the connectors, in order
  orderbooks,     \* this.orderbooks: pair -> entries in insertion order
  opportunities,  \* this.opportunities
  running,        \* this.running
  intervalId,     \* this.intervalId: TRUE when it holds a timer
  timers,         \* number of interval timers that are set in the runtime
  performance,    \* this.performance (the ledger)
  frames,         \* call frames of checkArbitrageOpportunities, by firing
  fired,          \* number of timer firings so far
  startFrames,    \* call frames of start() that are suspended on an await
  stopFrames,     \* call frames of stop() that are suspended on an await
  feeds,          \* venues whose order-book feed is subscribed
  lifecycle,      \* number of start()/stop() calls so far
  calls,          \* per venue, how often each adapter method was called
  lastReturn,     \* how the last executeArbitrage call ended, and its result
  now,            \* Date.now(), in scan intervals
  calc,           \* the last direct call of calculateSpread or
                  \* simulateArbitrage: its arguments and what it returned
  chain,          \* the storage of the Exchange and Token contracts and
                  \* the events emitted, with the last depositToken call
  env             \* process.env.PAPER_TRADING as startBot of index.js read it

vars == <<paperTrading, exchanges, orderbooks, opportunities, running,
          intervalId, timers, performance, frames, fired, startFrames,
          stopFrames, feeds, lifecycle, calls, lastReturn, now, calc, chain, env>>

PairSet == {tradingPairs[k] : k \in 1..Len(tradingPairs)}
VenueSet == {AllVenues[k] : k \in 1..Len(AllVenues)}
              \cup {LoopVenues[k] : k \in 1..Len(LoopVenues)}
FrameIds == 1..(IF MaxFires > MaxOverlap THEN MaxFires ELSE MaxOverlap)

(***************************************************************************)
(* Order Book Store                                                        *)
(***************************************************************************)
HasBook(ob, pair, ex) == \E k \in 1..Len(ob[pair]) : ob[pair][k].exchange = ex

BookOf(ob, pair, ex) ==
  ob[pair][CHOOSE k \in 1..Len(ob[pair]) : ob[pair][k].exchange = ex]

\* Object.keys(this.orderbooks[pair])
exchangesWithData(ob, pair) == [k \in 1..Len(ob[pair]) |-> ob[pair][k].exchange]

\* updateOrderbook: the entry of (pair, exchange) is replaced where it is,
\* or added after the entries the pair already has
updateOrderbook(ob, ex, pair, book, t) ==
  LET entry == [exchange |-> ex, bids |-> book.bids, asks |-> book.asks,
                timestamp |-> t]
  IN  IF HasBook(ob, pair, ex)
      THEN [ob EXCEPT ![pair] =
              [k \in 1..Len(ob[pair]) |->
                 IF ob[pair][k].exchange = ex THEN entry ELSE ob[pair][k]]]
      ELSE [ob EXCEPT ![pair] = Append(ob[pair], entry)]

getBestPrice(ob, pair, exchangeName, type) ==
  IF ~HasBook(ob, pair, exchangeName) THEN Null
  ELSE LET orderbook == BookOf(ob, pair, exchangeName)
           side == IF type = "bid" THEN orderbook.bids ELSE orderbook.asks
       IN  IF type \notin {"bid", "ask"} THEN Null
           ELSE IF Len(side) = 0 THEN Null
           ELSE IF Falsy(side[1]) THEN Null ELSE side[1]

(***************************************************************************)
(* Spread Calculator                                                       *)
(***************************************************************************)
\* a DecimalError thrown out of calculateSpread
Thrown == <<1, 0>>

spreadBuyOverSell(sell, buy) ==
  RatMul(RatSub(RatDiv(buy, sell), RatInt(1)), RatInt(100))

spreadWithoutFees(sell, buy) ==
  RatMul(RatSub(RatDiv(sell, buy), RatInt(1)), RatInt(100))

\* lines 364-378, on the Decimal values sell and buy
spreadWithFees(sell, buy) ==
  LET sellFee == RatMul(sell, feeRate)
      buyFee == RatMul(buy, feeRate)
      sellAfterFee == RatSub(sell, sellFee)
      buyAfterFee == RatAdd(buy, buyFee)
  IN  RatMul(RatSub(RatDiv(sellAfterFee, buyAfterFee), RatInt(1)),
             RatInt(100))

\* the prices are whole numbers, null or no numbers at all
calculateSpread(sellPrice, buyPrice) ==
  IF \/ Falsy(sellPrice) \/ Falsy(buyPrice)
     \/ NotPositive(sellPrice) \/ NotPositive(buyPrice)
  THEN RatInt(-100)
  ELSE IF sellPrice = NotNumeric \/ buyPrice = NotNumeric THEN Thrown
  ELSE spreadWithFees(RatInt(sellPrice), RatInt(buyPrice))

\* calculateSpread on prices with a fractional part, given as fractions
calculateSpreadOfFractions(sellPrice, buyPrice) ==
  IF sellPrice[1] <= 0 \/ buyPrice[1] <= 0
  THEN RatInt(-100)
  ELSE spreadWithFees(sellPrice, buyPrice)

(***************************************************************************)
(* Results of executeArbitrage                                             *)
(***************************************************************************)
\* nothing has been returned yet
NoResult == [kind |-> "none", profit |-> RatInt(0)]
\* a bare `return;`
Undefined == [kind |-> "undefined", profit |-> RatInt(0)]
\* { success: true, buyOrder, sellOrder, profit }
Success(profit) == [kind |-> "success", profit |-> profit]
\* { success: false, error: error.message }
Failure == [kind |-> "failure", profit |-> RatInt(0)]

\* decimal.js: Infinity - Infinity
NaN == <<0, 0>>

DecPlusReplaces(x, y) == y
DecPlus(x, y) == IF x = NaN \/ y = NaN THEN NaN ELSE RatAdd(x, y)

\* a simulation that reports the running total of the ledger as its profit
simulateArbitrageCumulative(perf, opp) ==
  IF opp.buyPrice = Null \/ opp.sellPrice = Null
  THEN <<[perf EXCEPT !.failedTrades = @ + 1], Failure>>
  ELSE LET netProfit ==
             IF opp.buyPrice = 0 THEN NaN
             ELSE LET baseAssetAmount ==
                        RatDiv(RatInt(orderSizeUSD), RatInt(opp.buyPrice))
                      buyTotal == RatInt(orderSizeUSD)
                      sellTotal == RatMul(baseAssetAmount, RatInt(opp.sellPrice))
                      profit == RatSub(sellTotal, buyTotal)
                      buyFee == RatMul(buyTotal, feeRate)
                      sellFee == RatMul(sellTotal, feeRate)
                  IN  RatSub(RatSub(profit, buyFee), sellFee)
       IN  <<[perf EXCEPT !.totalTrades = @ + 1,
                          !.successfulTrades = @ + 1,
                          !.totalProfit = DecPlus(@, netProfit)],
             Success(DecPlus(perf.totalProfit, netProfit))>>

\* simulateArbitrage: <<ledger, result>>
simulateArbitrage(perf, opp) ==
  IF opp.buyPrice = Null \/ opp.sellPrice = Null
  THEN \* new Decimal(..).div(null) throws; the catch counts a failure
       <<[perf EXCEPT !.failedTrades = @ + 1], Failure>>
  ELSE LET netProfit ==
             IF opp.buyPrice = 0 THEN NaN
             ELSE LET baseAssetAmount ==
                        RatDiv(RatInt(orderSizeUSD), RatInt(opp.buyPrice))
                      buyTotal == RatInt(orderSizeUSD)
                      sellTotal == RatMul(baseAssetAmount, RatInt(opp.sellPrice))
                      profit == RatSub(sellTotal, buyTotal)
                      buyFee == RatMul(buyTotal, feeRate)
                      sellFee == RatMul(sellTotal, feeRate)
                  IN  RatSub(RatSub(profit, buyFee), sellFee)
       IN  <<[perf EXCEPT !.totalTrades = @ + 1,
                          !.successfulTrades = @ + 1,
                          !.totalProfit = DecPlus(@, netProfit)],
             Success(netProfit)>>

(***************************************************************************)
(* The arithmetic of decimal.js as simulateArbitrage uses it: a Decimal is *)
(* sign * digits * 10^exp, digits most significant digit first, and every  *)
(* operation rounds its result to `precision` significant digits, half up. *)
(***************************************************************************)
\* Decimal.precision, the default of decimal.js
precision == 20

RECURSIVE DigitsOf(_)
DigitsOf(n) == IF n < 10 THEN <<n>> ELSE Append(DigitsOf(n \div 10), n % 10)

RECURSIVE StripZeros(_)
StripZeros(ds) ==
  IF ds # <<>> /\ ds[1] = 0 THEN StripZeros(Tail(ds)) ELSE ds

RECURSIVE Zeros(_)
Zeros(n) == IF n <= 0 THEN <<>> ELSE <<0>> \o Zeros(n - 1)

\* digits * m + carry
RECURSIVE TimesDigits(_, _, _)
TimesDigits(ds, m, carry) ==
  IF ds = <<>>
  THEN IF carry = 0 THEN <<>> ELSE DigitsOf(carry)
  ELSE LET v == ds[Len(ds)] * m + carry
       IN  Append(TimesDigits(SubSeq(ds, 1, Len(ds) - 1), m, v \div 10), v % 10)

\* a + b + carry, for a and b of one length
RECURSIVE PlusDigits(_, _, _)
PlusDigits(a, b, carry) ==
  IF a = <<>>
  THEN IF carry = 0 THEN <<>> ELSE <<carry>>
  ELSE LET v == a[Len(a)] + b[Len(b)] + carry
       IN  Append(PlusDigits(SubSeq(a, 1, Len(a) - 1), SubSeq(b, 1, Len(b) - 1), v \div 10), v % 10)

\* a - b - borrow, for a >= b of one length
RECURSIVE MinusDigits(_, _, _)
MinusDigits(a, b, borrow) ==
  IF a = <<>>
  THEN <<>>
  ELSE LET v == a[Len(a)] - b[Len(b)] - borrow
       IN  Append(MinusDigits(SubSeq(a, 1, Len(a) - 1), SubSeq(b, 1, Len(b) - 1),
                              IF v < 0 THEN 1 ELSE 0),
                  IF v < 0 THEN v + 10 ELSE v)

\* a < b, for a and b of one length
RECURSIVE LessDigits(_, _)
LessDigits(a, b) ==
  IF a = <<>> THEN FALSE
  ELSE IF a[1] # b[1] THEN a[1] < b[1]
  ELSE LessDigits(Tail(a), Tail(b))

DecimalZero == [sign |-> 0, digits |-> <<>>, exp |-> 0]

Decimal(sign, ds, exp) ==
  LET stripped == StripZeros(ds)
  IN  IF stripped = <<>> THEN DecimalZero
      ELSE [sign |-> sign, digits |-> stripped, exp |-> exp]

\* the rounding of a result to `precision` significant digits
DecimalRound(x) ==
  IF Len(x.digits) <= precision THEN x
  ELSE LET kept == SubSeq(x.digits, 1, precision)
           e == x.exp + Len(x.digits) - precision
           r == IF x.digits[precision + 1] >= 5
                THEN PlusDigits(kept, Zeros(precision - 1) \o <<1>>, 0)
                ELSE kept
       IN  IF Len(r) > precision
           THEN [sign |-> x.sign, digits |-> SubSeq(r, 1, precision),
                 exp |-> e + 1]
           ELSE [sign |-> x.sign, digits |-> r, exp |-> e]

\* the digits of a quotient by long division, one digit more than are kept
RECURSIVE QuotientDigits(_, _, _, _)
QuotientDigits(ds, r, e, b) ==
  IF r = 0 \/ Len(ds) = precision + 1
  THEN [digits |-> ds, exp |-> e]
  ELSE LET d == (r * 10) \div b
       IN  QuotientDigits(IF ds = <<>> /\ d = 0 THEN ds ELSE Append(ds, d),
                          (r * 10) % b, e - 1, b)

\* new Decimal(a).div(b) of positive integers
DecimalDiv(a, b) ==
  LET q == QuotientDigits(StripZeros(DigitsOf(a \div b)), a % b, 0, b)
  IN  DecimalRound(Decimal(1, q.digits, q.exp))

\* x.times(m) of a positive integer m
DecimalTimes(x, m) ==
  DecimalRound(Decimal(x.sign, TimesDigits(x.digits, m, 0), x.exp))

\* x.times(0.001)
DecimalTimesFee(x) ==
  IF x.sign = 0 THEN x ELSE [x EXCEPT !.exp = @ - 3]

\* x.plus(y)
DecimalPlus(x, y) ==
  IF x.sign = 0 THEN y
  ELSE IF y.sign = 0 THEN x
  ELSE LET e == IF x.exp < y.exp THEN x.exp ELSE y.exp
           a0 == x.digits \o Zeros(x.exp - e)
           b0 == y.digits \o Zeros(y.exp - e)
           n == IF Len(a0) < Len(b0) THEN Len(b0) ELSE Len(a0)
           a == Zeros(n - Len(a0)) \o a0
           b == Zeros(n - Len(b0)) \o b0
       IN  DecimalRound(
             IF x.sign = y.sign THEN Decimal(x.sign, PlusDigits(a, b, 0), e)
             ELSE IF LessDigits(a, b)
                  THEN Decimal(y.sign, MinusDigits(b, a, 0), e)
                  ELSE Decimal(x.sign, MinusDigits(a, b, 0), e))

\* x.minus(y)
DecimalMinus(x, y) == DecimalPlus(x, [y EXCEPT !.sign = -@])

\* netProfit of simulateArbitrage (lines 504-515) as Decimal computes it for
\* integer prices; simulateArbitrage above keeps the exact value of it
simulatedNetProfit(buyPrice, sellPrice) ==
  LET baseAssetAmount == DecimalDiv(orderSizeUSD, buyPrice)
      buyTotal == Decimal(1, DigitsOf(orderSizeUSD), 0)
      sellTotal == DecimalTimes(baseAssetAmount, sellPrice)
      profit == DecimalMinus(sellTotal, buyTotal)
      buyFee == DecimalTimesFee(buyTotal)
      sellFee == DecimalTimesFee(sellTotal)
  IN  DecimalMinus(DecimalMinus(profit, buyFee), sellFee)

(***************************************************************************)
(* Call frames of checkArbitrageOpportunities                              *)
(*                                                                         *)
(* pc of a frame that is suspended:                                        *)
(*   "awaitBook"      await exchange.getOrderBook(pair)          (line 236) *)
(*   "awaitBuy"       await buyExchangeConnector.marketBuy(..)   (line 434) *)
(*   "awaitSell"      await sellExchangeConnector.marketSell(..) (line 449) *)
(*   "awaitBalances"  await exchange.getBalances()               (line 208) *)
(* and, in a frame of the callback of runArbitrageLoop (part_004),         *)
(*   "awaitBookLoop"  await exchange.getOrderBook(pair)  (part_004:309)    *)
(* "idle" is a frame that does not exist yet, "done" one that returned,     *)
(* "failed" one that ended in the catch of checkArbitrageOpportunities.    *)
(* The other values are positions inside an uninterrupted stretch.         *)
(***************************************************************************)
NoOpportunity ==
  [pair |-> "", buyExchange |-> "", sellExchange |-> "", buyPrice |-> Null,
   sellPrice |-> Null, spread |-> RatInt(0), timestamp |-> 0]

NoArgs == [pair |-> "", quantity |-> Null, isQuoteAsset |-> FALSE]

IdleFrame ==
  [pc |-> "idle",
   p |-> 0,                 \* index of `pair` in tradingPairs
   e |-> 0,                 \* index of `exchange` in this.exchanges
   ewd |-> <<>>,            \* exchangesWithData
   i |-> 0, j |-> 0,
   bestBid1 |-> Null, bestAsk2 |-> Null, bestBid2 |-> Null, bestAsk1 |-> Null,
   spread1 |-> RatInt(0), spread2 |-> RatInt(0),
   dir |-> 0,               \* which of the two `if (spread.. >=` blocks runs
   opportunity |-> NoOpportunity,
   buyArgs |-> NoArgs,      \* arguments of the marketBuy call
   sellArgs |-> NoArgs,     \* arguments of the marketSell call
   buyOrder |-> NoOrder, sellOrder |-> NoOrder,
   b |-> 0,                 \* index of `exchange` in updateBalances
   list |-> <<>>,           \* `opportunities` of the callback of runArbitrageLoop
   x |-> 0,                 \* index of `opportunity` in that list
   profit |-> RatInt(0),
   stopped |-> "none"]      \* the await during which stop() was called

Suspended == {"awaitBook", "awaitBookLoop", "awaitBuy", "awaitSell",
              "awaitBalances"}
InFlight == {"awaitBuy", "awaitSell", "awaitBalances"}

\* the locals of one venue combination, dropped when the loop moves on
ClearCombo(f) ==
  [f EXCEPT !.bestBid1 = Null, !.bestAsk2 = Null, !.bestBid2 = Null,
            !.bestAsk1 = Null, !.spread1 = RatInt(0), !.spread2 = RatInt(0),
            !.dir = 0]

\* the names of the connectors in this.exchanges
Names == {exchanges[k] : k \in 1..Len(exchanges)}

Bump(c, venue, method) == [c EXCEPT ![venue][method] = @ + 1]

\* if (!this.running) return;   (line 386)
engineStoppedUnchecked == FALSE
engineStopped == ~running

\* if (this.config.paperTrading)   (line 410)
isPaperTradingIgnored == FALSE
isPaperTrading == paperTrading

\* spread >= this.config.minSpreadPercentage   (lines 272, 294)
meetsThresholdAnyProfit(spread) == RatGeq(spread, RatInt(0))
meetsThreshold(spread) == RatGeq(spread, minSpreadPercentage)

\* executeArbitrage returns `result`: the locals of the call are dropped
Return(st, how, result) ==
  [st EXCEPT !.last = [how |-> how, result |-> result],
             !.f = [@ EXCEPT !.pc = "return", !.opportunity = NoOpportunity,
                       !.buyArgs = NoArgs, !.sellArgs = NoArgs,
                       !.buyOrder = NoOrder, !.sellOrder = NoOrder,
                       !.b = 0, !.profit = RatInt(0), !.stopped = "none"]]

\* checkArbitrageOpportunities of part_004, lines 262-285 and 326-386: the
\* opportunities found from pair p and the connectors i < j onwards
getBestPriceLoop(ob, pair, exchangeName, side) ==
  IF ~HasBook(ob, pair, exchangeName) THEN Null
  ELSE LET orderbook == BookOf(ob, pair, exchangeName)
           levels == IF side = "bid" THEN orderbook.bids ELSE orderbook.asks
       IN  IF side \notin {"bid", "ask"} THEN Null
           ELSE IF Len(levels) > 0 THEN levels[1] ELSE Null

RECURSIVE compareOrderbooks(_, _, _, _, _)
compareOrderbooks(ob, exs, p, i, j) ==
  IF p > Len(tradingPairs) THEN <<>>
  ELSE IF i > Len(exs) THEN compareOrderbooks(ob, exs, p + 1, 1, 2)
  ELSE IF j > Len(exs) THEN compareOrderbooks(ob, exs, p, i + 1, i + 2)
  ELSE
    LET pair == tradingPairs[p]
        exchange1 == exs[i]
        exchange2 == exs[j]
        bestBid1 == getBestPriceLoop(ob, pair, exchange1, "bid")
        bestAsk2 == getBestPriceLoop(ob, pair, exchange2, "ask")
        bestBid2 == getBestPriceLoop(ob, pair, exchange2, "bid")
        bestAsk1 == getBestPriceLoop(ob, pair, exchange1, "ask")
        spread1 == calculateSpread(bestBid1, bestAsk2)
        spread2 == calculateSpread(bestBid2, bestAsk1)
        first == IF meetsThreshold(spread1)
                 THEN <<[pair |-> pair, buyExchange |-> exchange2,
                         sellExchange |-> exchange1, buyPrice |-> bestAsk2,
                         sellPrice |-> bestBid1, spread |-> spread1,
                         timestamp |-> Null]>>
                 ELSE <<>>
        second == IF meetsThreshold(spread2)
                  THEN <<[pair |-> pair, buyExchange |-> exchange1,
                          sellExchange |-> exchange2, buyPrice |-> bestAsk1,
                          sellPrice |-> bestBid2, spread |-> spread2,
                          timestamp |-> Null]>>
                  ELSE <<>>
        found == IF \/ ~HasBook(ob, pair, exchange1)
                    \/ ~HasBook(ob, pair, exchange2)
                    \/ Falsy(bestBid1) \/ Falsy(bestAsk2)
                    \/ Falsy(bestBid2) \/ Falsy(bestAsk1)
                 THEN <<>>
                 ELSE first \o second
    IN  found \o compareOrderbooks(ob, exs, p, i, j + 1)

\* The state a frame works on: the store, the history, the ledger, the
\* call counters and the frame itself.
RECURSIVE Run(_), RunLoop(_)

\* The callback of the timer of runArbitrageLoop in the Binance-Bitfinex
\* edition (part_004:151-181) with the checkArbitrageOpportunities it calls
\* (part_004:290-391), run until it awaits a venue or ends.
RunLoop(st) ==
  LET f == st.f IN
  CASE
       f.pc = "loop" ->
         \* the callback of runArbitrageLoop (part_004:151-156), then
         \* checkArbitrageOpportunities (part_004:290-300)
         IF ~running THEN [st EXCEPT !.f.pc = "done"]
         ELSE IF Len(exchanges) < 2 THEN [st EXCEPT !.f.pc = "done"]
         ELSE RunLoop([st EXCEPT !.f.pc = "loopFetch", !.f.p = 1, !.f.e = 1])
    [] f.pc = "loopFetch" ->
         \* "Update all orderbooks first" (part_004:301-324)
         IF f.p > Len(tradingPairs)
         THEN RunLoop([st EXCEPT !.f.pc = "process", !.f.p = 0, !.f.e = 0,
                             !.f.list = compareOrderbooks(st.ob, exchanges, 1, 1, 2),
                             !.f.x = 1])
         ELSE IF f.e > Len(exchanges)
         THEN RunLoop([st EXCEPT !.f.p = @ + 1, !.f.e = 1])
         ELSE [st EXCEPT !.f.pc = "awaitBookLoop"]
    [] f.pc = "process" ->
         \* for (const opportunity of opportunities)  (part_004:159-177)
         IF f.x > Len(f.list)
         THEN [st EXCEPT !.f.pc = "done", !.f.list = <<>>, !.f.x = 0]
         ELSE Run([st EXCEPT
                     !.opps = Append(@, [f.list[f.x] EXCEPT !.timestamp = now]),
                     !.f.opportunity = f.list[f.x],
                     !.f.pc = "execute"])
    [] OTHER -> st

Run(st) ==
  LET f == st.f
      pair == tradingPairs[f.p]
  IN
  CASE f.pc = "pair" ->
         \* for (const pair of this.config.tradingPairs)
         IF f.p > Len(tradingPairs)
         THEN [st EXCEPT !.f = [ClearCombo(f) EXCEPT !.pc = "done", !.p = 0,
                                   !.e = 0, !.i = 0, !.j = 0, !.ewd = <<>>]]
         ELSE Run([st EXCEPT !.f.pc = "fetch", !.f.e = 1])
    [] f.pc = "fetch" ->
         \* for (const exchange of this.exchanges): fetch what is missing
         IF f.e > Len(exchanges)
         THEN Run([st EXCEPT !.f.pc = "keys", !.f.e = 0])
         ELSE IF HasBook(st.ob, pair, exchanges[f.e])
         THEN Run([st EXCEPT !.f.e = @ + 1])
         ELSE [st EXCEPT !.f.pc = "awaitBook"]
    [] f.pc = "keys" ->
         LET ewd == exchangesWithData(st.ob, pair)
         IN  IF Len(ewd) < 2
             THEN Run([st EXCEPT !.f.pc = "pair", !.f.p = @ + 1])
             ELSE Run([st EXCEPT !.f.pc = "combo", !.f.ewd = ewd,
                                 !.f.i = 1, !.f.j = 2])
    [] f.pc = "combo" ->
         IF f.i > Len(f.ewd)
         THEN Run([st EXCEPT !.f = [ClearCombo(f) EXCEPT !.pc = "pair",
                                       !.p = @ + 1, !.i = 0, !.j = 0,
                                       !.ewd = <<>>]])
         ELSE IF f.j > Len(f.ewd)
         THEN Run([st EXCEPT !.f.i = @ + 1, !.f.j = f.i + 2])
         ELSE LET exchange1 == f.ewd[f.i]
                  exchange2 == f.ewd[f.j]
                  bestBid1 == getBestPrice(st.ob, pair, exchange1, "bid")
                  bestAsk2 == getBestPrice(st.ob, pair, exchange2, "ask")
                  bestBid2 == getBestPrice(st.ob, pair, exchange2, "bid")
                  bestAsk1 == getBestPrice(st.ob, pair, exchange1, "ask")
              IN  Run([st EXCEPT !.f.pc = "first",
                         !.f.bestBid1 = bestBid1, !.f.bestAsk2 = bestAsk2,
                         !.f.bestBid2 = bestBid2, !.f.bestAsk1 = bestAsk1,
                         !.f.spread1 = calculateSpread(bestBid1, bestAsk2),
                         !.f.spread2 = calculateSpread(bestBid2, bestAsk1)])
    [] f.pc = "first" ->
         \* if (spread1 >= this.config.minSpreadPercentage)
         IF meetsThreshold(f.spread1)
         THEN LET opportunity ==
                    [pair |-> pair, buyExchange |-> f.ewd[f.j],
                     sellExchange |-> f.ewd[f.i], buyPrice |-> f.bestAsk2,
                     sellPrice |-> f.bestBid1, spread |-> f.spread1,
                     timestamp |-> now]
              IN  Run([st EXCEPT !.opps = Append(@, opportunity),
                                 !.f.opportunity = opportunity,
                                 !.f.dir = 1, !.f.pc = "execute"])
         ELSE Run([st EXCEPT !.f.pc = "second"])
    [] f.pc = "second" ->
         \* if (spread2 >= this.config.minSpreadPercentage)
         IF meetsThreshold(f.spread2)
         THEN LET opportunity ==
                    [pair |-> pair, buyExchange |-> f.ewd[f.i],
                     sellExchange |-> f.ewd[f.j], buyPrice |-> f.bestAsk1,
                     sellPrice |-> f.bestBid2, spread |-> f.spread2,
                     timestamp |-> now]
              IN  Run([st EXCEPT !.opps = Append(@, opportunity),
                                 !.f.opportunity = opportunity,
                                 !.f.dir = 2, !.f.pc = "execute"])
         ELSE Run([st EXCEPT !.f = [ClearCombo(f) EXCEPT !.pc = "combo",
                                       !.j = @ + 1]])
    [] f.pc = "execute" ->
         \* executeArbitrage(opportunity), up to its first await
         LET o == f.opportunity
         IN  IF engineStopped
             THEN Run(Return(st, "notRunning", Undefined))
             ELSE IF RatLt(o.spread, minSpreadPercentage)
             THEN Run(Return(st, "lowSpread", Undefined))
             ELSE IF isPaperTrading
             THEN LET sim == simulateArbitrage(st.perf, o)
                  IN  Run(Return([st EXCEPT !.perf = sim[1]], "paper", sim[2]))
             ELSE IF o.buyExchange \notin Names \/ o.sellExchange \notin Names
             THEN Run(Return(st, "noConnector", Undefined))
             ELSE [st EXCEPT
                     !.calls = Bump(@, o.buyExchange, "marketBuy"),
                     !.f.pc = "awaitBuy",
                     !.f.buyArgs = [pair |-> o.pair,
                                    quantity |-> orderSizeUSD,
                                    isQuoteAsset |-> TRUE]]
    [] f.pc = "return" ->
         \* back in the caller, after the await
         IF f.x > 0
         THEN RunLoop([st EXCEPT !.f.pc = "process", !.f.x = @ + 1])
         ELSE IF f.p = 0
         THEN \* executeArbitrage was called on its own: no scan to go back to
              [st EXCEPT !.f.pc = "done"]
         ELSE IF f.dir = 1
         THEN Run([st EXCEPT !.f.pc = "second"])
         ELSE Run([st EXCEPT !.f = [ClearCombo(f) EXCEPT !.pc = "combo",
                                       !.j = @ + 1]])
    [] OTHER -> st

(***************************************************************************)
(* The Exchange contract (src/contracts/Exchange.sol) and the token it     *)
(* holds deposits of (contracts/Token.sol).  Amounts are in whole tokens,  *)
(* tokens(n) of test/helpers.                                              *)
(***************************************************************************)
Users == {"deployer", "user1"}
Accounts == Users \cup {"exchange"}
Tokens == {"FToken"}

\* Token.totalSupply, in whole tokens
totalSupply == 1000000
\* what the deployer transfers to user1 before each test
userFunds == 100
\* the amounts approved and deposited
Amounts == {0, 10, 60, 200}

\* event Deposit(token, user, amount, balance)
Deposit(token, user, amount, balance) ==
  [event |-> "Deposit", token |-> token, user |-> user, amount |-> amount,
   balance |-> balance]

\* no depositToken call has been made
NoDeposit == [token |-> "none", user |-> "none", amount |-> 0]

\* Token.new(), Exchange.new(feeAccount, feePercent) and
\* token.transfer(user1, tokens(100)): the contracts as each test finds them
Deployed ==
  [tokens |-> [t \in Tokens |-> [u \in Users |-> 0]],
   balanceOf |-> [a \in Accounts |->
                    IF a = "deployer" THEN totalSupply - userFunds
                    ELSE IF a = "user1" THEN userFunds ELSE 0],
   allowance |-> [u \in Users |-> 0],
   logs |-> <<>>,
   deposits |-> 0, call |-> NoDeposit, transfer |-> "none",
   reverted |-> FALSE]

\* SafeMath.add on uint256: the sums stay below totalSupply, far from 2^256
add(a, b) == a + b

\* Token.transferFrom(from, to, value) called by the exchange: what it
\* returns and the storage it leaves.  It moves value when from holds it and
\* has approved it, and otherwise fails by returning false or by reverting.
transferFrom(c, from, to, value) ==
  IF value <= c.balanceOf[from] /\ value <= c.allowance[from]
  THEN {[returned |-> "true",
         chain |-> [c EXCEPT !.balanceOf[from] = @ - value,
                             !.balanceOf[to] = @ + value,
                             !.allowance[from] = @ - value]]}
  ELSE {[returned |-> "false", chain |-> c],
        [returned |-> "reverted", chain |-> c]}

(***************************************************************************)
(* The environment index.js reads its configuration from                   *)
(***************************************************************************)
\* startBot has not run
NotRead == "not read"
\* the variable is not set
Unset == "unset"
\* what process.env.PAPER_TRADING can hold
Settings == {Unset, "true", "false", "TRUE", "1"}

\* paperTrading: process.env.PAPER_TRADING === "true"
paperTradingOf(setting) == setting = "true"

(***************************************************************************)
(* Initial state: a constructed bot (constructor, lines 8-34)              *)
(***************************************************************************)
\* no direct call has been made
NoCall == [op |-> "none", sellPrice |-> 0, buyPrice |-> 0, out |-> RatInt(0)]

NoCalls == [v \in VenueSet |-> [marketBuy |-> 0, marketSell |-> 0]]

Constructed(venues) ==
  /\ exchanges = venues
  /\ orderbooks = [p \in PairSet |-> <<>>]
  /\ opportunities = <<>>
  /\ running = FALSE
  /\ intervalId = FALSE
  /\ timers = 0
  /\ performance = [totalTrades |-> 0, successfulTrades |-> 0,
                    failedTrades |-> 0, totalProfit |-> RatInt(0)]
  /\ frames = [n \in FrameIds |-> IdleFrame]
  /\ fired = 0
  /\ startFrames = <<>>
  /\ stopFrames = <<>>
  /\ feeds = {}
  /\ lifecycle = 0
  /\ calls = NoCalls
  /\ lastReturn = [how |-> "none", result |-> NoResult]
  /\ now = 0
  /\ calc = NoCall
  /\ chain = Deployed
  /\ env = NotRead

Init ==
  /\ paperTrading \in BOOLEAN
  /\ Constructed(ConfiguredVenues)

StateOf(n) ==
  [ob |-> orderbooks, opps |-> opportunities, perf |-> performance,
   calls |-> calls, last |-> lastReturn, f |-> frames[n]]

Commit(n, st) ==
  /\ orderbooks' = st.ob
  /\ opportunities' = st.opps
  /\ performance' = st.perf
  /\ calls' = st.calls
  /\ lastReturn' = st.last
  /\ frames' = [frames EXCEPT ![n] = st.f]

FrameUnchanged ==
  UNCHANGED <<paperTrading, exchanges, running, intervalId, timers, fired,
              startFrames, stopFrames, feeds, lifecycle, now, calc, chain, env>>

(***************************************************************************)
(* The interval timer fires: () => this.checkArbitrageOpportunities()      *)
(***************************************************************************)
TimerFires(limit) ==
  /\ timers > 0
  /\ fired < limit
  /\ fired' = fired + 1
  /\ Commit(fired + 1,
            Run([StateOf(fired + 1) EXCEPT
                   !.f = [IdleFrame EXCEPT !.pc = "pair", !.p = 1]]))
  /\ UNCHANGED <<paperTrading, exchanges, running, intervalId, timers,
                 startFrames, stopFrames, feeds, lifecycle, now, calc, chain, env>>

\* The timer fires after the scan of the firing before it has ended: the
\* call frame of that scan is gone, the new call takes its place.
TimerFiresInTurn(limit) ==
  /\ timers > 0
  /\ fired < limit
  /\ frames[1].pc \in {"idle", "done", "failed"}
  /\ fired' = fired + 1
  /\ Commit(1, Run([StateOf(1) EXCEPT
                      !.f = [IdleFrame EXCEPT !.pc = "pair", !.p = 1]]))
  /\ UNCHANGED <<paperTrading, exchanges, running, intervalId, timers,
                 startFrames, stopFrames, feeds, lifecycle, now, calc, chain, env>>

(***************************************************************************)
(* A venue feed pushes an order book: (orderbook) => updateOrderbook(..)   *)
(***************************************************************************)
PushOrderbook(books) ==
  \E venue \in feeds, pair \in PairSet, book \in books :
    /\ orderbooks' = updateOrderbook(orderbooks, venue, pair, book, now)
    /\ UNCHANGED <<paperTrading, exchanges, opportunities, running,
                   intervalId, timers, performance, frames, fired,
                   startFrames, stopFrames, feeds, lifecycle, calls, lastReturn, now, calc, chain, env>>

(***************************************************************************)
(* exchange.getOrderBook(pair) answers (lines 236-239)                     *)
(***************************************************************************)
\* an order book
BookArrives(n, books) ==
  /\ frames[n].pc = "awaitBook"
  /\ \E book \in books :
       LET st == StateOf(n)
           f == st.f
       IN  Commit(n, Run([st EXCEPT
                  !.ob = updateOrderbook(@, exchanges[f.e], tradingPairs[f.p],
                                         book, now),
                  !.f.pc = "fetch", !.f.e = @ + 1]))
  /\ FrameUnchanged

\* null: the connector caught an error of its own
BookMissing(n) ==
  /\ frames[n].pc = "awaitBook"
  /\ Commit(n, Run([StateOf(n) EXCEPT !.f.pc = "fetch", !.f.e = @ + 1]))
  /\ FrameUnchanged

\* the call throws: the catch of checkArbitrageOpportunities ends the scan
BookThrows(n) ==
  /\ frames[n].pc = "awaitBook"
  /\ Commit(n, [StateOf(n) EXCEPT !.f.pc = "failed", !.f.p = 0, !.f.e = 0])
  /\ FrameUnchanged

(***************************************************************************)
(* executeArbitrage after its awaits (lines 433-491)                       *)
(***************************************************************************)
\* this.performance.failedTrades++
recordFailureForgotten(perf) == perf
recordFailure(perf) == [perf EXCEPT !.failedTrades = @ + 1]

\* the statistics of a completed pair (lines 470-474)
recordSuccess(perf, profit) ==
  [perf EXCEPT !.totalTrades = @ + 1, !.successfulTrades = @ + 1,
               !.totalProfit = DecPlus(@, profit)]

\* the quantity handed to marketSell (line 451)
sellQuantityFromOrderSize(buyOrder) == orderSizeUSD \div buyOrder.price
sellQuantity(buyOrder) == buyOrder.executedQty

\* the profit of a completed pair (lines 463-467)
executionProfitQuoted(buyOrder, sellOrder, opportunity) ==
  RatSub(RatMul(RatInt(sellOrder.executedQty), RatInt(opportunity.sellPrice)),
         RatMul(RatInt(buyOrder.executedQty), RatInt(opportunity.buyPrice)))

executionProfit(buyOrder, sellOrder, opportunity) ==
  LET buyTotal == RatMul(RatInt(buyOrder.executedQty), RatInt(buyOrder.price))
      sellTotal == RatMul(RatInt(sellOrder.executedQty),
                          RatInt(sellOrder.price))
  IN  RatSub(sellTotal, buyTotal)

\* what the two `if (!order.success) { ...; return; }` blocks return
rejectedResult(leg) == Undefined

\* the catch block (lines 487-491)
catchExecute(st, leg) ==
  Return([st EXCEPT !.perf = recordFailure(@)], leg, Failure)

\* marketBuy has answered (lines 440-452)
onBuyOrderSellsAnyway(st, buyOrder) ==
  LET o == st.f.opportunity
  IN  IF buyOrder.threw THEN catchExecute(st, "buyThrew")
      ELSE [st EXCEPT !.calls = Bump(@, o.sellExchange, "marketSell"),
                      !.f.buyOrder = buyOrder,
                      !.f.pc = "awaitSell",
                      !.f.sellArgs = [pair |-> o.pair,
                                      quantity |-> sellQuantity(buyOrder),
                                      isQuoteAsset |-> FALSE]]

\* a coordinator that issues a rejected buy once more
onBuyOrderRetries(st, buyOrder) ==
  LET o == st.f.opportunity
  IN  IF buyOrder.threw THEN catchExecute(st, "buyThrew")
      ELSE IF ~buyOrder.success /\ st.calls[o.buyExchange].marketBuy < 2
      THEN [st EXCEPT !.calls = Bump(@, o.buyExchange, "marketBuy")]
      ELSE IF ~buyOrder.success
      THEN Return([st EXCEPT !.perf = recordFailure(@)], "buyRejected",
                  rejectedResult("buy"))
      ELSE [st EXCEPT !.calls = Bump(@, o.sellExchange, "marketSell"),
                      !.f.buyOrder = buyOrder,
                      !.f.pc = "awaitSell",
                      !.f.sellArgs = [pair |-> o.pair,
                                      quantity |-> sellQuantity(buyOrder),
                                      isQuoteAsset |-> FALSE]]

onBuyOrder(st, buyOrder) ==
  LET o == st.f.opportunity
  IN  IF buyOrder.threw THEN catchExecute(st, "buyThrew")
      ELSE IF ~buyOrder.success
      THEN Return([st EXCEPT !.perf = recordFailure(@)], "buyRejected",
                  rejectedResult("buy"))
      ELSE [st EXCEPT !.calls = Bump(@, o.sellExchange, "marketSell"),
                      !.f.buyOrder = buyOrder,
                      !.f.pc = "awaitSell",
                      !.f.sellArgs = [pair |-> o.pair,
                                      quantity |-> sellQuantity(buyOrder),
                                      isQuoteAsset |-> FALSE]]

\* marketSell has answered (lines 454-477)
onSellOrder(st, sellOrder) ==
  LET f == st.f
  IN  IF sellOrder.threw THEN catchExecute(st, "sellThrew")
      ELSE IF ~sellOrder.success
      THEN Return([st EXCEPT !.perf = recordFailure(@)], "sellRejected",
                  rejectedResult("sell"))
      ELSE LET profit == executionProfit(f.buyOrder, sellOrder, f.opportunity)
               s1 == [st EXCEPT !.perf = recordSuccess(@, profit)]
           IN  IF Len(exchanges) = 0
               THEN Return(s1, "completed", Success(profit))
               ELSE [s1 EXCEPT !.f.sellOrder = sellOrder,
                               !.f.profit = profit, !.f.b = 1,
                               !.f.pc = "awaitBalances"]

\* getBalances has answered inside updateBalances (lines 207-223); a throw
\* is caught there and ends the refresh
onBalances(st, threw) ==
  LET f == st.f
  IN  IF threw \/ f.b + 1 > Len(exchanges)
      THEN Return(st, "completed", Success(f.profit))
      ELSE [st EXCEPT !.f.b = @ + 1]

BuyAnswered(n) ==
  /\ frames[n].pc = "awaitBuy"
  /\ \E buyOrder \in BuyAnswers : Commit(n, Run(onBuyOrder(StateOf(n), buyOrder)))
  /\ FrameUnchanged

SellAnswered(n) ==
  /\ frames[n].pc = "awaitSell"
  /\ \E sellOrder \in SellAnswers(frames[n].sellArgs.quantity) :
       Commit(n, Run(onSellOrder(StateOf(n), sellOrder)))
  /\ FrameUnchanged

BalancesAnswered(n) ==
  /\ frames[n].pc = "awaitBalances"
  /\ \E threw \in BOOLEAN : Commit(n, Run(onBalances(StateOf(n), threw)))
  /\ FrameUnchanged

(***************************************************************************)
(* start() (lines 88-125)                                                  *)
(***************************************************************************)
\* setupWebSockets() and setInterval(..) (lines 107-113)
StartTail ==
  /\ feeds' = feeds \cup Names
  /\ timers' = timers + 1
  /\ intervalId' = TRUE

\* start() on a running engine: a warning
StartWhileRunning ==
  /\ lifecycle < MaxLifecycle
  /\ running
  /\ lifecycle' = lifecycle + 1
  /\ UNCHANGED <<paperTrading, exchanges, orderbooks, opportunities, running,
                 intervalId, timers, performance, frames, fired, startFrames,
                 stopFrames, feeds, calls, lastReturn, now, calc, chain, env>>

\* start() up to `await exchange.init()` of the first connector
Start ==
  /\ lifecycle < MaxLifecycle
  /\ ~running
  /\ lifecycle' = lifecycle + 1
  /\ running' = TRUE
  /\ IF Len(exchanges) = 0
     THEN StartTail /\ UNCHANGED startFrames
     ELSE /\ startFrames' = Append(startFrames,
                                   [pc |-> "init", k |-> 1, failed |-> 0])
          /\ UNCHANGED <<feeds, timers, intervalId>>
  /\ UNCHANGED <<paperTrading, exchanges, orderbooks, opportunities,
                 performance, frames, fired, stopFrames, calls, lastReturn, now, calc, chain, env>>

Remove(seq, idx) == [k \in 1..(Len(seq) - 1) |-> IF k < idx THEN seq[k] ELSE seq[k + 1]]

\* exchange.init() answers true or false (a value out of `answers`): start()
\* does not look at it, the loop goes on, then updateBalances() awaits the
\* first getBalances().  The frame only counts the connectors that reported
\* a failure.
InitReports(idx, answers) ==
  /\ idx \in 1..Len(startFrames)
  /\ startFrames[idx].pc = "init"
  /\ \E ok \in answers :
       startFrames' =
         [startFrames EXCEPT ![idx] =
            [pc |-> IF @.k + 1 > Len(exchanges) THEN "balances" ELSE "init",
             k |-> IF @.k + 1 > Len(exchanges) THEN 1 ELSE @.k + 1,
             failed |-> IF ok THEN @.failed ELSE @.failed + 1]]
  /\ UNCHANGED <<paperTrading, exchanges, orderbooks, opportunities, running,
                 intervalId, timers, performance, frames, fired, stopFrames,
                 feeds, lifecycle, calls, lastReturn, now, calc, chain, env>>

\* the same, where what init() reported is not followed
InitAnswered(idx) == InitReports(idx, {TRUE})

\* exchange.init() throws: catch (lines 121-124)
InitThrows(idx) ==
  /\ idx \in 1..Len(startFrames)
  /\ startFrames[idx].pc = "init"
  /\ startFrames' = Remove(startFrames, idx)
  /\ running' = FALSE
  /\ UNCHANGED <<paperTrading, exchanges, orderbooks, opportunities,
                 intervalId, timers, performance, frames, fired, stopFrames,
                 feeds, lifecycle, calls, lastReturn, now, calc, chain, env>>

\* getBalances() answers or throws inside updateBalances(); after the last
\* one start() subscribes the feeds and sets the timer
StartBalancesAnswered(idx) ==
  /\ idx \in 1..Len(startFrames)
  /\ startFrames[idx].pc = "balances"
  /\ \E threw \in BOOLEAN :
       IF threw \/ startFrames[idx].k + 1 > Len(exchanges)
       THEN /\ startFrames' = Remove(startFrames, idx)
            /\ StartTail
       ELSE /\ startFrames' = [startFrames EXCEPT ![idx].k = @ + 1]
            /\ UNCHANGED <<feeds, timers, intervalId>>
  /\ UNCHANGED <<paperTrading, exchanges, orderbooks, opportunities, running,
                 performance, frames, fired, stopFrames, lifecycle, calls, lastReturn, now, calc, chain, env>>

(***************************************************************************)
(* stop() (lines 130-157)                                                  *)
(***************************************************************************)
\* stop() on a stopped engine: a warning
StopWhileStopped ==
  /\ lifecycle < MaxLifecycle
  /\ ~running
  /\ lifecycle' = lifecycle + 1
  /\ UNCHANGED <<paperTrading, exchanges, orderbooks, opportunities, running,
                 intervalId, timers, performance, frames, fired, startFrames,
                 stopFrames, feeds, calls, lastReturn, now, calc, chain, env>>

\* what stop() does to the call frames of the scans: nothing; the frame
\* only remembers the await it was suspended on
stopFrameAborts(f) ==
  IF f.pc \in InFlight THEN [f EXCEPT !.pc = "done", !.stopped = f.pc] ELSE f

stopFrame(f) ==
  IF f.pc \in InFlight /\ f.stopped = "none" THEN [f EXCEPT !.stopped = f.pc]
  ELSE f

\* stop() up to `await exchange.closeWebSockets()` of the first connector
Stop ==
  /\ lifecycle < MaxLifecycle
  /\ running
  /\ lifecycle' = lifecycle + 1
  /\ running' = FALSE
  /\ intervalId' = FALSE
  /\ timers' = IF intervalId THEN timers - 1 ELSE timers
  /\ frames' = [n \in FrameIds |-> stopFrame(frames[n])]
  /\ IF Len(exchanges) = 0
     THEN UNCHANGED <<feeds, stopFrames>>
     ELSE /\ feeds' = feeds \ {exchanges[1]}
          /\ stopFrames' = Append(stopFrames, [k |-> 1])
  /\ UNCHANGED <<paperTrading, exchanges, orderbooks, opportunities,
                 performance, fired, startFrames, calls, lastReturn, now, calc, chain, env>>

\* closeWebSockets() of a connector has returned: the next one is closed
CloseAnswered(idx) ==
  /\ idx \in 1..Len(stopFrames)
  /\ IF stopFrames[idx].k + 1 > Len(exchanges)
     THEN /\ stopFrames' = Remove(stopFrames, idx)
          /\ UNCHANGED feeds
     ELSE /\ stopFrames' = [stopFrames EXCEPT ![idx].k = @ + 1]
          /\ feeds' = feeds \ {exchanges[stopFrames[idx].k + 1]}
  /\ UNCHANGED <<paperTrading, exchanges, orderbooks, opportunities, running,
                 intervalId, timers, performance, frames, fired, startFrames,
                 lifecycle, calls, lastReturn, now, calc, chain, env>>

(***************************************************************************)
(* The Binance-Bitfinex edition (src/unnamed/part_004): start(),           *)
(* runArbitrageLoop() and the callback of its timer                        *)
(***************************************************************************)
\* this.orderbooks[pair][exchange.name] = orderbook  (part_004:311): the
\* object of the connector is stored as it is, without a timestamp
storeFetched(ob, ex, pair, book) == updateOrderbook(ob, ex, pair, book, Null)

\* start() up to `await exchange.init()` of the first connector: it has no
\* guard on this.running, and calls setupExchanges() again (part_004:85-93)
StartLoop ==
  /\ lifecycle < MaxLifecycle
  /\ lifecycle' = lifecycle + 1
  /\ exchanges' = exchanges \o LoopVenues
  /\ startFrames' = Append(startFrames, [pc |-> "initLoop", k |-> 1])
  /\ UNCHANGED <<paperTrading, orderbooks, opportunities, running, intervalId,
                 timers, performance, frames, fired, stopFrames, feeds, calls,
                 lastReturn, now, calc, chain, env>>

\* startBot of index.js: it reads the configuration, constructs the bot with
\* it and calls bot.start(), here up to `await exchange.init()` of the first
\* connector; bot.runArbitrageLoop() follows when start() has returned
startBot ==
  /\ env = NotRead
  /\ lifecycle < MaxLifecycle
  /\ \E setting \in Settings :
       /\ env' = setting
       /\ paperTrading' = paperTradingOf(setting)
  /\ lifecycle' = lifecycle + 1
  \* setupExchanges() of the constructor and again of start()
  /\ exchanges' = LoopVenues \o LoopVenues
  /\ startFrames' = Append(startFrames, [pc |-> "initLoop", k |-> 1])
  /\ UNCHANGED <<orderbooks, opportunities, running, intervalId,
                 timers, performance, frames, fired, stopFrames, feeds, calls,
                 lastReturn, now, calc, chain>>

\* exchange.init() answers; after the last one setupWebSockets() runs and
\* updateBalances() awaits the first getBalances()  (part_004:92-100)
InitAnsweredLoop(idx) ==
  /\ idx \in 1..Len(startFrames)
  /\ startFrames[idx].pc = "initLoop"
  /\ IF startFrames[idx].k + 1 > Len(exchanges)
     THEN /\ startFrames' = [startFrames EXCEPT ![idx] =
                                [pc |-> "balancesLoop", k |-> 1]]
          /\ feeds' = feeds \cup Names
     ELSE /\ startFrames' = [startFrames EXCEPT ![idx].k = @ + 1]
          /\ UNCHANGED feeds
  /\ UNCHANGED <<paperTrading, exchanges, orderbooks, opportunities, running,
                 intervalId, timers, performance, frames, fired, stopFrames,
                 lifecycle, calls, lastReturn, now, calc, chain, env>>

\* exchange.init() throws: start() returns false  (part_004:111-114)
InitThrowsLoop(idx) ==
  /\ idx \in 1..Len(startFrames)
  /\ startFrames[idx].pc = "initLoop"
  /\ startFrames' = Remove(startFrames, idx)
  /\ UNCHANGED <<paperTrading, exchanges, orderbooks, opportunities, running,
                 intervalId, timers, performance, frames, fired, stopFrames,
                 feeds, lifecycle, calls, lastReturn, now, calc, chain, env>>

\* getBalances() answers or throws; after the last one this.running = true
\* (part_004:100-110)
StartBalancesAnsweredLoop(idx) ==
  /\ idx \in 1..Len(startFrames)
  /\ startFrames[idx].pc = "balancesLoop"
  /\ \E threw \in BOOLEAN :
       IF threw \/ startFrames[idx].k + 1 > Len(exchanges)
       THEN /\ startFrames' = Remove(startFrames, idx)
            /\ running' = TRUE
       ELSE /\ startFrames' = [startFrames EXCEPT ![idx].k = @ + 1]
            /\ UNCHANGED running
  /\ UNCHANGED <<paperTrading, exchanges, orderbooks, opportunities,
                 intervalId, timers, performance, frames, fired, stopFrames,
                 feeds, lifecycle, calls, lastReturn, now, calc, chain, env>>

\* runArbitrageLoop(): the timer it holds is cleared, a new one is set
\* (part_004:146-186)
runArbitrageLoop ==
  /\ lifecycle < MaxLifecycle
  /\ lifecycle' = lifecycle + 1
  /\ timers' = IF intervalId THEN timers ELSE timers + 1
  /\ intervalId' = TRUE
  /\ UNCHANGED <<paperTrading, exchanges, orderbooks, opportunities, running,
                 performance, frames, fired, startFrames, stopFrames, feeds,
                 calls, lastReturn, now, calc, chain, env>>

\* stop() up to `await exchange.closeWebSockets()` of the first connector: it
\* has no guard on this.running  (part_004:120-133)
StopLoop ==
  /\ lifecycle < MaxLifecycle
  /\ lifecycle' = lifecycle + 1
  /\ running' = FALSE
  /\ intervalId' = FALSE
  /\ timers' = IF intervalId THEN timers - 1 ELSE timers
  /\ frames' = [n \in FrameIds |-> stopFrame(frames[n])]
  /\ IF Len(exchanges) = 0
     THEN UNCHANGED <<feeds, stopFrames>>
     ELSE /\ feeds' = feeds \ {exchanges[1]}
          /\ stopFrames' = Append(stopFrames, [k |-> 1])
  /\ UNCHANGED <<paperTrading, exchanges, orderbooks, opportunities,
                 performance, fired, startFrames, calls, lastReturn, now, calc, chain, env>>

\* the timer of runArbitrageLoop fires
TimerFiresLoop(limit) ==
  /\ timers > 0
  /\ fired < limit
  /\ fired' = fired + 1
  /\ Commit(fired + 1,
            RunLoop([StateOf(fired + 1) EXCEPT
                        !.f = [IdleFrame EXCEPT !.pc = "loop"]]))
  /\ UNCHANGED <<paperTrading, exchanges, running, intervalId, timers,
                 startFrames, stopFrames, feeds, lifecycle, now, calc, chain, env>>

\* getOrderBook answers with an order book  (part_004:309-311)
BookArrivesLoop(n, books) ==
  /\ frames[n].pc = "awaitBookLoop"
  /\ \E book \in books :
       LET st == StateOf(n)
           f == st.f
       IN  Commit(n, RunLoop([st EXCEPT
                  !.ob = storeFetched(@, exchanges[f.e], tradingPairs[f.p], book),
                  !.f.pc = "loopFetch", !.f.e = @ + 1]))
  /\ FrameUnchanged

\* getOrderBook answers null or throws  (part_004:312-322)
BookMissingLoop(n) ==
  /\ frames[n].pc = "awaitBookLoop"
  /\ Commit(n, RunLoop([StateOf(n) EXCEPT !.f.pc = "loopFetch", !.f.e = @ + 1]))
  /\ FrameUnchanged

(***************************************************************************)
(* The clock                                                               *)
(***************************************************************************)
\* Date.now() moves on by one scan interval
Tick(limit) ==
  /\ now < limit
  /\ now' = now + 1
  /\ UNCHANGED <<paperTrading, exchanges, orderbooks, opportunities, running,
                 intervalId, timers, performance, frames, fired, startFrames,
                 stopFrames, feeds, lifecycle, calls, lastReturn, calc, chain, env>>

(***************************************************************************)
(* Direct calls of the Spread Calculator and of simulateArbitrage          *)
(***************************************************************************)
\* arguments of calculateSpread: null, a value that is no number, a
\* negative number, zero and positive prices
PriceInputs == {Null, NotNumeric, -5, 0, 1, 2, 5, 10, 11, 12, 1000}

\* the cases of testSpreadCalculation (test.js:65-69): <<sellPrice,
\* buyPrice>>, as fractions
TestCases == {<<Rat(301505, 10), Rat(301002, 10)>>,
              <<Rat(20554, 10), Rat(20523, 10)>>,
              <<RatInt(100), RatInt(101)>>}

\* prices of the opportunity handed to simulateArbitrage
SimulatedPrices == {Null, 100, 125, 128, 130}
\* positive prices, among them pairs at which the spread after fees is zero
SignPrices == {3, 7, 64, 125, 999, 1000, 1001, 1020, 1998, 2002, 2997, 3003}
\* the same, with a price of zero among them
InvalidPrices == {Null, 0, 100, 125, 128}

\* expectedSpread of a case, in hundredths of a percent (test.js:66-68)
expectedSpread(testCase) ==
  CASE testCase = <<Rat(301505, 10), Rat(301002, 10)>> -> 16
    [] testCase = <<Rat(20554, 10), Rat(20523, 10)>> -> 14
    [] testCase = <<RatInt(100), RatInt(101)>> -> -101

\* Math.round(calculatedSpread * 100), the hundredths of roundedCalculated
\* (test.js:76)
roundedCalculated(calculatedSpread) ==
  LET scaled == RatAdd(RatMul(calculatedSpread, RatInt(100)), Rat(1, 2))
  IN  scaled[1] \div scaled[2]

\* Math.abs(roundedCalculated - expectedSpread) < 0.02  (test.js:77)
isClose(testCase, calculatedSpread) ==
  Abs(roundedCalculated(calculatedSpread) - expectedSpread(testCase)) < 2

CallCalculateSpread ==
  /\ \E sellPrice \in PriceInputs, buyPrice \in PriceInputs :
       calc' = [op |-> "calculateSpread", sellPrice |-> sellPrice,
                buyPrice |-> buyPrice,
                out |-> calculateSpread(sellPrice, buyPrice)]
  /\ UNCHANGED <<paperTrading, exchanges, orderbooks, opportunities, running,
                 intervalId, timers, performance, frames, fired, startFrames,
                 stopFrames, feeds, lifecycle, calls, lastReturn, now, chain, env>>

CallCalculateSpreadOfFractions ==
  /\ \E testCase \in TestCases :
       calc' = [op |-> "calculateSpreadOfFractions", sellPrice |-> testCase[1],
                buyPrice |-> testCase[2],
                out |-> calculateSpreadOfFractions(testCase[1], testCase[2])]
  /\ UNCHANGED <<paperTrading, exchanges, orderbooks, opportunities, running,
                 intervalId, timers, performance, frames, fired, startFrames,
                 stopFrames, feeds, lifecycle, calls, lastReturn, now, chain, env>>

\* the opportunities handed to executeArbitrage: bought on a venue with or
\* without a connector, sold on Binance; a spread above or below the
\* threshold
ExecutedOpportunities ==
  {[pair |-> tradingPairs[1], buyExchange |-> buyExchange,
    sellExchange |-> "Binance", buyPrice |-> 1001, sellPrice |-> 1020,
    spread |-> spread, timestamp |-> 0] :
     buyExchange \in {"KuCoin", "GateIo"}, spread \in {Rat(1, 2), Rat(16, 10)}}

\* executeArbitrage(opportunity) called on its own, at most `limit` times:
\* the call runs in a frame of its own up to its first await
CallExecuteArbitrage(limit) ==
  /\ fired < limit
  /\ fired' = fired + 1
  /\ \E opportunity \in ExecutedOpportunities :
       /\ Commit(fired + 1,
                 Run([StateOf(fired + 1) EXCEPT
                        !.f = [IdleFrame EXCEPT !.pc = "execute",
                                                !.opportunity = opportunity]]))
       /\ calc' = [op |-> "executeArbitrage",
                   sellPrice |-> opportunity.sellPrice,
                   buyPrice |-> opportunity.buyPrice,
                   out |-> opportunity.spread,
                   buyExchange |-> opportunity.buyExchange,
                   sellExchange |-> opportunity.sellExchange]
  /\ UNCHANGED <<paperTrading, exchanges, running, intervalId, timers,
                 startFrames, stopFrames, feeds, lifecycle, now, chain, env>>

\* simulateArbitrage(opportunity) with prices out of `prices`, at most
\* `limit` times
CallSimulateArbitrageAt(limit, prices) ==
  /\ performance.totalTrades + performance.failedTrades < limit
  /\ \E sellPrice \in prices, buyPrice \in prices :
       LET opp == [NoOpportunity EXCEPT !.pair = tradingPairs[1],
                     !.buyExchange = exchanges[1], !.sellExchange = exchanges[2],
                     !.buyPrice = buyPrice, !.sellPrice = sellPrice,
                     !.spread = calculateSpread(sellPrice, buyPrice)]
           done == simulateArbitrage(performance, opp)
       IN  /\ performance' = done[1]
           /\ lastReturn' = [how |-> "simulated", result |-> done[2]]
           /\ calc' = [op |-> "simulateArbitrage", sellPrice |-> sellPrice,
                       buyPrice |-> buyPrice, out |-> done[2].profit]
  /\ UNCHANGED <<paperTrading, exchanges, orderbooks, opportunities, running,
                 intervalId, timers, frames, fired, startFrames, stopFrames,
                 feeds, lifecycle, calls, now, chain, env>>

\* calculateSpread(sellPrice, buyPrice) and then simulateArbitrage on the
\* opportunity, with prices out of `prices`, at most `limit` times; the
\* call is recorded with the spread and with the netProfit Decimal computed
CallSimulateArbitrageSigned(limit, prices) ==
  /\ performance.totalTrades + performance.failedTrades < limit
  /\ \E sellPrice \in prices, buyPrice \in prices :
       LET spread == calculateSpread(sellPrice, buyPrice)
           opp == [NoOpportunity EXCEPT !.pair = tradingPairs[1],
                     !.buyExchange = exchanges[1], !.sellExchange = exchanges[2],
                     !.buyPrice = buyPrice, !.sellPrice = sellPrice,
                     !.spread = spread]
           done == simulateArbitrage(performance, opp)
       IN  /\ performance' = done[1]
           /\ lastReturn' = [how |-> "simulated", result |-> done[2]]
           /\ calc' = [op |-> "simulateArbitrageSigned",
                       sellPrice |-> sellPrice, buyPrice |-> buyPrice,
                       out |-> done[2].profit, spread |-> spread,
                       netProfit |-> simulatedNetProfit(buyPrice, sellPrice)]
  /\ UNCHANGED <<paperTrading, exchanges, orderbooks, opportunities, running,
                 intervalId, timers, frames, fired, startFrames, stopFrames,
                 feeds, lifecycle, calls, now, chain, env>>

\* the same, with prices a scan can have found
CallSimulateArbitrage(limit) == CallSimulateArbitrageAt(limit, SimulatedPrices)

(***************************************************************************)
(* Specification                                                           *)
(***************************************************************************)
Next ==
  \/ TimerFires(MaxFires)
  \/ PushOrderbook(PushedBooks)
  \/ \E n \in FrameIds : BookArrives(n, FetchedBooks)
  \/ \E n \in FrameIds : BookMissing(n)
  \/ \E n \in FrameIds : BookThrows(n)
  \/ \E n \in FrameIds : BuyAnswered(n)
  \/ \E n \in FrameIds : SellAnswered(n)
  \/ \E n \in FrameIds : BalancesAnswered(n)
  \/ Start
  \/ StartWhileRunning
  \/ \E idx \in 1..MaxLifecycle : InitAnswered(idx)
  \/ \E idx \in 1..MaxLifecycle : InitThrows(idx)
  \/ \E idx \in 1..MaxLifecycle : StartBalancesAnswered(idx)
  \/ Stop
  \/ StopWhileStopped
  \/ \E idx \in 1..MaxLifecycle : CloseAnswered(idx)

Spec == Init /\ [][Next]_vars

\* The scans alone: paper trading, every connector configured, start() and
\* the timer, and every book getOrderBook can deliver.
ScanInit ==
  /\ paperTrading = TRUE
  /\ Constructed(AllVenues)

ScanNext ==
  \/ TimerFires(MaxFires)
  \/ PushOrderbook(PushedBooks)
  \/ \E n \in FrameIds : BookArrives(n, BookChoices)
  \/ \E n \in FrameIds : BookMissing(n)
  \/ \E n \in FrameIds : BookThrows(n)
  \/ Start
  \/ StartWhileRunning
  \/ \E idx \in 1..MaxLifecycle : InitAnswered(idx)
  \/ \E idx \in 1..MaxLifecycle : InitThrows(idx)
  \/ \E idx \in 1..MaxLifecycle : StartBalancesAnswered(idx)

ScanSpec == ScanInit /\ [][ScanNext]_vars

\* Overlapping firings of the timer of start(), in live trading.
OverlapInit ==
  /\ paperTrading = FALSE
  /\ Constructed(ConfiguredVenues)

OverlapNext ==
  \/ TimerFires(MaxOverlap)
  \/ \E n \in FrameIds : BookArrives(n, FetchedBooks)
  \/ \E n \in FrameIds : BuyAnswered(n)
  \/ \E n \in FrameIds : SellAnswered(n)
  \/ \E n \in FrameIds : BalancesAnswered(n)
  \/ Start
  \/ \E idx \in 1..MaxLifecycle : InitAnswered(idx)
  \/ \E idx \in 1..MaxLifecycle : StartBalancesAnswered(idx)

OverlapSpec == OverlapInit /\ [][OverlapNext]_vars

\* The Binance-Bitfinex edition in live trading: a constructed bot, then
\* start() and runArbitrageLoop().
LoopInit ==
  /\ paperTrading = FALSE
  /\ Constructed(LoopVenues)

LoopNext ==
  \/ StartLoop
  \/ \E idx \in 1..MaxLifecycle : InitAnsweredLoop(idx)
  \/ \E idx \in 1..MaxLifecycle : InitThrowsLoop(idx)
  \/ \E idx \in 1..MaxLifecycle : StartBalancesAnsweredLoop(idx)
  \/ runArbitrageLoop
  \/ TimerFiresLoop(MaxFires)
  \/ PushOrderbook(PushedBooks)
  \/ \E n \in FrameIds : BookArrivesLoop(n, FetchedBooks)
  \/ \E n \in FrameIds : BookMissingLoop(n)
  \/ \E n \in FrameIds : BuyAnswered(n)
  \/ \E n \in FrameIds : SellAnswered(n)
  \/ \E n \in FrameIds : BalancesAnswered(n)

LoopSpec == LoopInit /\ [][LoopNext]_vars

\* The store over time: paper trading, start(), the feeds, the timer and the
\* clock; getOrderBook may return a book with an empty side.
StoreInit ==
  /\ paperTrading = TRUE
  /\ Constructed(ConfiguredVenues)

StoreNext ==
  \/ Start
  \/ \E idx \in 1..MaxLifecycle : InitAnswered(idx)
  \/ \E idx \in 1..MaxLifecycle : StartBalancesAnswered(idx)
  \/ TimerFires(MaxFires)
  \/ PushOrderbook(PushedBooks)
  \/ \E n \in FrameIds : BookArrives(n, SidedBooks)
  \/ Tick(MaxNow)

StoreSpec == StoreInit /\ [][StoreNext]_vars

\* The Spread Calculator called on its own, on a constructed bot.
CalcInit ==
  /\ paperTrading = TRUE
  /\ Constructed(ConfiguredVenues)

CalcNext ==
  \/ CallCalculateSpread
  \/ CallCalculateSpreadOfFractions

CalcSpec == CalcInit /\ [][CalcNext]_vars

\* simulateArbitrage called on its own, on a constructed bot in paper
\* trading.
SimulationInit ==
  /\ paperTrading = TRUE
  /\ Constructed(ConfiguredVenues)

SimulationNext == CallSimulateArbitrage(MaxSimulations)

SimulationSpec == SimulationInit /\ [][SimulationNext]_vars

\* simulateArbitrage called on its own with prices it should refuse.
InvalidInputInit ==
  /\ paperTrading = TRUE
  /\ Constructed(ConfiguredVenues)

InvalidInputNext == CallSimulateArbitrageAt(MaxSimulations, InvalidPrices)

InvalidInputSpec == InvalidInputInit /\ [][InvalidInputNext]_vars

\* executeArbitrage called on its own, in live trading, on a bot that may
\* have been started.
ExecuteInit ==
  /\ paperTrading = FALSE
  /\ Constructed(ConfiguredVenues)

ExecuteNext ==
  \/ Start
  \/ \E idx \in 1..MaxLifecycle : InitAnswered(idx)
  \/ \E idx \in 1..MaxLifecycle : StartBalancesAnswered(idx)
  \/ CallExecuteArbitrage(MaxOverlap)
  \/ \E n \in FrameIds : BuyAnswered(n)
  \/ \E n \in FrameIds : SellAnswered(n)
  \/ \E n \in FrameIds : BalancesAnswered(n)

ExecuteSpec == ExecuteInit /\ [][ExecuteNext]_vars

\* The lifecycle of the Binance-Bitfinex edition: start(),
\* runArbitrageLoop(), the callback of its timer and stop().
LoopStopNext ==
  \/ StartLoop
  \/ \E idx \in 1..MaxLifecycle : InitAnsweredLoop(idx)
  \/ \E idx \in 1..MaxLifecycle : InitThrowsLoop(idx)
  \/ \E idx \in 1..MaxLifecycle : StartBalancesAnsweredLoop(idx)
  \/ runArbitrageLoop
  \/ StopLoop
  \/ \E idx \in 1..MaxLifecycle : CloseAnswered(idx)
  \/ TimerFiresLoop(MaxFires)
  \/ \E n \in FrameIds : BookArrivesLoop(n, PushedBooks)

LoopStopSpec == LoopInit /\ [][LoopStopNext]_vars

\* start() with connectors whose init() may report a failure, then the
\* timer and stop().
InitFailureInit ==
  /\ paperTrading = TRUE
  /\ Constructed(ConfiguredVenues)

InitFailureNext ==
  \/ Start
  \/ StartWhileRunning
  \/ \E idx \in 1..MaxLifecycle : InitReports(idx, BOOLEAN)
  \/ \E idx \in 1..MaxLifecycle : InitThrows(idx)
  \/ \E idx \in 1..MaxLifecycle : StartBalancesAnswered(idx)
  \/ TimerFires(MaxFires)
  \/ PushOrderbook(PushedBooks)
  \/ \E n \in FrameIds : BookArrives(n, FetchedBooks)
  \/ Stop
  \/ \E idx \in 1..MaxLifecycle : CloseAnswered(idx)

InitFailureSpec == InitFailureInit /\ [][InitFailureNext]_vars

\* Tick after tick in paper trading: start(), then the timer fires each time
\* the scan before has ended.
HistoryInit ==
  /\ paperTrading = TRUE
  /\ Constructed(ConfiguredVenues)

HistoryNext ==
  \/ Start
  \/ \E idx \in 1..MaxLifecycle : InitAnswered(idx)
  \/ \E idx \in 1..MaxLifecycle : StartBalancesAnswered(idx)
  \/ TimerFiresInTurn(MaxTicks)
  \/ \E n \in FrameIds : BookArrives(n, FetchedBooks)
  \/ \E n \in FrameIds : BookMissing(n)

HistorySpec == HistoryInit /\ [][HistoryNext]_vars

(***************************************************************************)
(* The Exchange contract's transactions                                    *)
(***************************************************************************)
\* token.approve(exchange.address, amount, { from: user })
approve(user, amount) ==
  /\ chain' = [chain EXCEPT !.allowance[user] = amount]
  /\ UNCHANGED <<paperTrading, exchanges, orderbooks, opportunities, running,
                 intervalId, timers, performance, frames, fired, startFrames,
                 stopFrames, feeds, lifecycle, calls, lastReturn, now, calc,
                 env>>

\* depositToken without the require around transferFrom: a transfer that
\* returns false is credited all the same
depositTokenUnchecked(token, sender, amount) ==
  /\ chain.deposits < MaxDeposits
  /\ \E t \in transferFrom(chain, sender, "exchange", amount) :
       chain' =
         IF t.returned # "reverted"
         THEN LET balance == add(t.chain.tokens[token][sender], amount) IN
              [t.chain EXCEPT
                 !.tokens[token][sender] = balance,
                 !.logs = Append(@, Deposit(token, sender, amount, balance)),
                 !.deposits = @ + 1,
                 !.call = [token |-> token, user |-> sender, amount |-> amount],
                 !.transfer = t.returned, !.reverted = FALSE]
         ELSE [chain EXCEPT
                 !.deposits = @ + 1,
                 !.call = [token |-> token, user |-> sender, amount |-> amount],
                 !.transfer = t.returned, !.reverted = TRUE]
  /\ UNCHANGED <<paperTrading, exchanges, orderbooks, opportunities, running,
                 intervalId, timers, performance, frames, fired, startFrames,
                 stopFrames, feeds, lifecycle, calls, lastReturn, now, calc,
                 env>>

\* exchange.depositToken(token, amount, { from: sender }): a transaction, so
\* that a revert leaves the storage of both contracts as it was
depositToken(token, sender, amount) ==
  /\ chain.deposits < MaxDeposits
  /\ \E t \in transferFrom(chain, sender, "exchange", amount) :
       chain' =
         IF t.returned = "true"
         THEN LET balance == add(t.chain.tokens[token][sender], amount) IN
              [t.chain EXCEPT
                 !.tokens[token][sender] = balance,
                 !.logs = Append(@, Deposit(token, sender, amount, balance)),
                 !.deposits = @ + 1,
                 !.call = [token |-> token, user |-> sender, amount |-> amount],
                 !.transfer = t.returned, !.reverted = FALSE]
         ELSE [chain EXCEPT
                 !.deposits = @ + 1,
                 !.call = [token |-> token, user |-> sender, amount |-> amount],
                 !.transfer = t.returned, !.reverted = TRUE]
  /\ UNCHANGED <<paperTrading, exchanges, orderbooks, opportunities, running,
                 intervalId, timers, performance, frames, fired, startFrames,
                 stopFrames, feeds, lifecycle, calls, lastReturn, now, calc,
                 env>>

(***************************************************************************)
(* The exchange contract: approvals and deposits in any order              *)
(***************************************************************************)
DepositInit ==
  /\ paperTrading = TRUE
  /\ Constructed(ConfiguredVenues)

DepositNext ==
  \/ \E user \in Users, amount \in Amounts : approve(user, amount)
  \/ \E token \in Tokens, sender \in Users, amount \in Amounts :
       depositToken(token, sender, amount)

DepositSpec == DepositInit /\ [][DepositNext]_vars

\* The later edition's loop on books that may be crossed: start(), the
\* loop's timer and the fetches of a scan, with the executions that follow.
CrossedNext ==
  \/ StartLoop
  \/ \E idx \in 1..MaxLifecycle : InitAnsweredLoop(idx)
  \/ \E idx \in 1..MaxLifecycle : StartBalancesAnsweredLoop(idx)
  \/ runArbitrageLoop
  \/ TimerFiresLoop(MaxFires)
  \/ \E n \in FrameIds : BookArrivesLoop(n, CrossedBooks)
  \/ \E n \in FrameIds : BuyAnswered(n)
  \/ \E n \in FrameIds : SellAnswered(n)
  \/ \E n \in FrameIds : BalancesAnswered(n)

CrossedSpec == LoopInit /\ [][CrossedNext]_vars

\* simulateArbitrage called once, on a fresh ledger, on an opportunity of
\* positive prices with the spread the scanner computes for it.
SignInit ==
  /\ paperTrading = TRUE
  /\ Constructed(ConfiguredVenues)

SignNext == CallSimulateArbitrageSigned(1, SignPrices)

SignSpec == SignInit /\ [][SignNext]_vars

\* The bot as index.js starts it, from a process in which no bot exists yet:
\* the configuration is read from the environment, then start(), the loop
\* and the executions that follow.
StartBotInit ==
  /\ paperTrading = TRUE
  /\ Constructed(<<>>)

StartBotNext ==
  \/ startBot
  \/ \E idx \in 1..MaxLifecycle : InitAnsweredLoop(idx)
  \/ \E idx \in 1..MaxLifecycle : StartBalancesAnsweredLoop(idx)
  \/ runArbitrageLoop
  \/ TimerFiresLoop(MaxFires)
  \/ \E n \in FrameIds : BookArrivesLoop(n, FetchedBooks)
  \/ \E n \in FrameIds : BuyAnswered(n)
  \/ \E n \in FrameIds : SellAnswered(n)
  \/ \E n \in FrameIds : BalancesAnswered(n)

StartBotSpec == StartBotInit /\ [][StartBotNext]_vars

TypeOK ==
  /\ running \in BOOLEAN
  /\ timers \in 0..MaxLifecycle
  /\ \A n \in FrameIds : frames[n].pc \in Suspended \cup {"idle", "done", "failed"}

(***************************************************************************)
(* Properties                                                              *)
(***************************************************************************)
\* frame n ran in this step (a call of stop() only marks the frames)
FrameStepped(n) == frames'[n] # frames[n] /\ lifecycle' = lifecycle

\* frame n got the answer of marketBuy and it was no fill
BuyFailed(n) ==
  frames[n].pc = "awaitBuy" /\ FrameStepped(n) /\ frames'[n].buyOrder = NoOrder

\* frame n got the answer of marketSell and it was no fill
SellFailed(n) ==
  frames[n].pc = "awaitSell" /\ FrameStepped(n) /\ frames'[n].sellOrder = NoOrder

Sum(method) ==
  LET RECURSIVE S(_)
      S(vs) == IF vs = {} THEN 0
               ELSE LET v == CHOOSE x \in vs : TRUE
                    IN  calls[v][method] + S(vs \ {v})
  IN  S(VenueSet)

\* C2: when the buy was filled and the sell failed, executeArbitrage returns
\* a value that tells the caller so: it is not what it returns when the buy
\* itself failed.
C2_PartialFailureSurfaced ==
  /\ lastReturn.how = "sellRejected" => lastReturn.result # rejectedResult("buy")
  /\ lastReturn.how = "sellThrew" => lastReturn.result # Failure

\* C3: a live attempt in which a leg fails (the buy or the sell is rejected
\* or throws) adds exactly 1 to failedTrades and leaves totalProfit and
\* successfulTrades as they were.
C3_FailedLegCountedOnce ==
  [][\A n \in FrameIds :
       (BuyFailed(n) \/ SellFailed(n)) =>
         /\ performance'.failedTrades = performance.failedTrades + 1
         /\ performance'.totalProfit = performance.totalProfit
         /\ performance'.successfulTrades = performance.successfulTrades]_vars

C3_Witness ==
  /\ lastReturn.how = "sellRejected"
  /\ performance.failedTrades = 1
  /\ performance.successfulTrades = 0

\* C4: a market sell is issued only by an execution whose market buy has
\* reported success; after a failed buy no sell is issued.
C4_NoSellAfterFailedBuy ==
  [][/\ \A v \in VenueSet :
          calls'[v].marketSell > calls[v].marketSell =>
            \E n \in FrameIds : /\ frames[n].pc = "awaitBuy"
                                /\ frames'[n].pc = "awaitSell"
                                /\ frames'[n].buyOrder.success
     /\ \A n \in FrameIds :
          BuyFailed(n) => \A v \in VenueSet :
                            calls'[v].marketSell = calls[v].marketSell]_vars

C4_Witness ==
  /\ lastReturn.how = "buyRejected"
  /\ Sum("marketBuy") = 1
  /\ Sum("marketSell") = 0

\* C5: the buy is issued for the configured order size in quote currency;
\* the sell is outstanding only after the buy was filled, and for the
\* quantity the buy reported as executed.
C5_SellsWhatWasBought ==
  \A n \in FrameIds :
    /\ frames[n].pc = "awaitBuy" =>
         frames[n].buyArgs = [pair |-> frames[n].opportunity.pair,
                               quantity |-> orderSizeUSD,
                               isQuoteAsset |-> TRUE]
    /\ frames[n].pc = "awaitSell" =>
         /\ frames[n].buyOrder.success
         /\ frames[n].sellArgs.pair = frames[n].opportunity.pair
         /\ frames[n].sellArgs.quantity = frames[n].buyOrder.executedQty

C5_Witness ==
  \E n \in FrameIds : /\ frames[n].pc = "awaitSell"
                      /\ frames[n].buyOrder.executedQty = 2
                      /\ frames[n].sellArgs.quantity = 2

\* C7: stop() leaves the executions in flight alone.  An execution that was
\* awaiting its buy when stop() was called goes on to issue the sell for the
\* bought quantity, or records the failed buy; once its sell is answered
\* the outcome is recorded in the ledger.
C7_StopDoesNotAbort ==
  [][\A n \in FrameIds :
       /\ (running /\ ~running') =>
            /\ frames'[n].pc = frames[n].pc
            /\ frames'[n].opportunity = frames[n].opportunity
       /\ (frames[n].stopped = "awaitBuy" /\ frames[n].pc = "awaitBuy"
             /\ FrameStepped(n)) =>
            \/ /\ frames'[n].pc = "awaitSell"
               /\ frames'[n].opportunity = frames[n].opportunity
               /\ frames'[n].sellArgs.quantity = frames'[n].buyOrder.executedQty
            \/ performance'.failedTrades = performance.failedTrades + 1
       /\ (frames[n].stopped # "none" /\ frames[n].pc = "awaitSell"
             /\ FrameStepped(n)) =>
            \/ performance'.failedTrades = performance.failedTrades + 1
            \/ performance'.successfulTrades = performance.successfulTrades + 1
     ]_vars

C7_Witness ==
  \E n \in FrameIds : /\ frames[n].stopped = "awaitBuy"
                      /\ frames[n].pc = "awaitBalances"
                      /\ ~running
                      /\ performance.successfulTrades = 1

\* C8: while the engine is not running, a scan that calls executeArbitrage
\* places no order and changes no field of the ledger; an execution already
\* in flight places no further buy.
C8_NoEffectWhenStopped ==
  [][\A n \in FrameIds :
       (~running /\ FrameStepped(n)) =>
         /\ \A v \in VenueSet : calls'[v].marketBuy = calls[v].marketBuy
         /\ frames[n].pc \notin InFlight =>
              calls' = calls /\ performance' = performance]_vars

C8_Witness ==
  /\ lastReturn.how = "notRunning"
  /\ ~running
  /\ Len(opportunities) > 0

\* C9: in paper trading no marketBuy and no marketSell is ever called.
C9_PaperPlacesNoOrder ==
  paperTrading =>
    /\ \A v \in VenueSet : calls[v].marketBuy = 0 /\ calls[v].marketSell = 0
    /\ \A n \in FrameIds : frames[n].pc \notin InFlight

C9_Witness ==
  /\ paperTrading
  /\ lastReturn.how = "paper"
  /\ performance.successfulTrades = 1

\* the opportunities added to this.opportunities in this step
Emitted ==
  {opportunities'[k] : k \in (Len(opportunities) + 1)..Len(opportunities')}

\* the fields of an opportunity the scan is specified to fill
Claimed(o) ==
  [pair |-> o.pair, buyExchange |-> o.buyExchange,
   sellExchange |-> o.sellExchange, buyPrice |-> o.buyPrice,
   sellPrice |-> o.sellPrice, spread |-> o.spread]

\* buy on venue B at its best ask, sell on venue A at its best bid
Direction(ob, pair, A, B) ==
  [pair |-> pair, buyExchange |-> B, sellExchange |-> A,
   buyPrice |-> getBestPrice(ob, pair, B, "ask"),
   sellPrice |-> getBestPrice(ob, pair, A, "bid"),
   spread |-> calculateSpread(getBestPrice(ob, pair, A, "bid"),
                              getBestPrice(ob, pair, B, "ask"))]

WithData(ob, pair) == {ob[pair][k].exchange : k \in 1..Len(ob[pair])}

Qualifying(ob, pair) ==
  {Direction(ob, pair, ab[1], ab[2]) :
     ab \in {x \in WithData(ob, pair) \X WithData(ob, pair) :
               /\ x[1] # x[2]
               /\ RatGeq(Direction(ob, pair, x[1], x[2]).spread,
                         minSpreadPercentage)}}

\* C10: a scan emits, for the venues with order-book data, exactly the
\* directions whose spread is at least minSpreadPercentage, each carrying
\* the best ask as buyPrice, the best bid as sellPrice and that spread.
C10_ScanEmitsQualifying ==
  [][\A n \in FrameIds :
       (FrameStepped(n) /\ frames'[n].pc = "done") =>
         {Claimed(o) : o \in Emitted} = Qualifying(orderbooks', tradingPairs[1])
    ]_vars

\* a finished scan that emitted one direction and left out one whose spread
\* is positive and below the threshold
C10_Witness ==
  /\ \E n \in FrameIds : frames[n].pc = "done"
  /\ Len(opportunities) = 1
  /\ Qualifying(orderbooks, tradingPairs[1]) = {Claimed(opportunities[1])}
  /\ \E A, B \in WithData(orderbooks, tradingPairs[1]) :
       LET d == Direction(orderbooks, tradingPairs[1], A, B)
       IN  RatLt(RatInt(0), d.spread) /\ RatLt(d.spread, minSpreadPercentage)

\* C1: a market buy is issued only if the spread computed from the order
\* books that are in the store when it is issued (best bid of the sell
\* venue, best ask of the buy venue) is at least minSpreadPercentage.
C1_RevalidatedAtExecution ==
  [][\A n \in FrameIds :
       (/\ FrameStepped(n)
        /\ frames'[n].pc = "awaitBuy"
        /\ \E v \in VenueSet : calls'[v].marketBuy > calls[v].marketBuy) =>
         LET o == frames'[n].opportunity
         IN  RatGeq(Direction(orderbooks', o.pair, o.sellExchange,
                              o.buyExchange).spread,
                    minSpreadPercentage)]_vars

\* C6: no two executions that touch the same venue and pair are awaiting
\* their venue at the same time.
C6_NoOverlappingExecutions ==
  \A n, m \in FrameIds :
    (/\ n # m
     /\ frames[n].pc \in {"awaitBuy", "awaitSell"}
     /\ frames[m].pc \in {"awaitBuy", "awaitSell"}) =>
      \/ frames[n].opportunity.pair # frames[m].opportunity.pair
      \/ {frames[n].opportunity.buyExchange, frames[n].opportunity.sellExchange}
           \cap {frames[m].opportunity.buyExchange,
                 frames[m].opportunity.sellExchange} = {}

\* a value that is a number
IsNumber(x) == x \notin {Null, NotNumeric}

\* C15: calculateSpread returns -100, and does not throw, whenever sellPrice
\* or buyPrice is null, zero or negative, whatever the other argument is.
C15_SentinelForInvalidPrices ==
  (/\ calc.op = "calculateSpread"
   /\ \/ calc.sellPrice = Null \/ calc.buyPrice = Null
      \/ (IsNumber(calc.sellPrice) /\ calc.sellPrice <= 0)
      \/ (IsNumber(calc.buyPrice) /\ calc.buyPrice <= 0)) =>
    calc.out = RatInt(-100)

\* a negative buy price next to a sell price that is no number
C15_Witness ==
  /\ calc.op = "calculateSpread"
  /\ calc.sellPrice = NotNumeric
  /\ calc.buyPrice = -5
  /\ calc.out = RatInt(-100)

PositiveCalls ==
  /\ calc.op = "calculateSpread" /\ calc'.op = "calculateSpread"
  /\ \A x \in {calc.sellPrice, calc.buyPrice, calc'.sellPrice, calc'.buyPrice} :
       IsNumber(x) /\ x > 0

\* C17: of two calls with positive prices, the one with the larger sellPrice
\* (same buyPrice) does not return less, and the one with the larger buyPrice
\* (same sellPrice) does not return more.
C17_SpreadMonotonic ==
  [][PositiveCalls =>
       /\ (calc'.buyPrice = calc.buyPrice /\ calc'.sellPrice >= calc.sellPrice)
            => RatGeq(calc'.out, calc.out)
       /\ (calc'.sellPrice = calc.sellPrice /\ calc'.buyPrice >= calc.buyPrice)
            => RatGeq(calc.out, calc'.out)]_vars

\* the call with the larger sell price has returned strictly more than the
\* call with sell price 11 returns
C17_Witness ==
  /\ calc.op = "calculateSpread"
  /\ calc.sellPrice = 12
  /\ calc.buyPrice = 10
  /\ RatLt(calculateSpread(11, 10), calc.out)

\* the call calculateSpread(30150.5, 30100.2) has returned
FirstTestCase ==
  /\ calc.op = "calculateSpreadOfFractions"
  /\ calc.sellPrice = Rat(301505, 10)
  /\ calc.buyPrice = Rat(301002, 10)

C19_TestCasesClose ==
  calc.op = "calculateSpreadOfFractions" =>
    isClose(<<calc.sellPrice, calc.buyPrice>>, calc.out)

\* O/b*s - O - 0.001*O - 0.001*(O/b*s) for the order size O of the bot
ExpectedNetProfit(s, b) ==
  LET O == RatInt(orderSizeUSD)
      proceeds == RatMul(RatDiv(O, RatInt(b)), RatInt(s))
  IN  RatSub(RatSub(RatSub(proceeds, O), RatMul(Rat(1, 1000), O)),
             RatMul(Rat(1, 1000), proceeds))

EntryOf(ob, pair, venue) == BookOf(ob, pair, venue)

\* the longest age, in scan intervals, at which a book counts as fresh (the
\* bot has no such setting; the clock is followed for one interval more)
freshnessWindow == MaxNow - 1

Fresh(ob, pair, venue) ==
  now' - EntryOf(ob, pair, venue).timestamp <= freshnessWindow

\* C11: a scan emits no opportunity for two venues of which one has a book
\* older than the freshness window.
C11_StaleBookExcluded ==
  [][\A n \in FrameIds :
       FrameStepped(n) =>
         \A o \in Emitted : /\ Fresh(orderbooks', o.pair, o.buyExchange)
                            /\ Fresh(orderbooks', o.pair, o.sellExchange)]_vars

\* C12: a scan emits no opportunity, in either direction, for two venues of
\* which one lacks its best bid or its best ask.
C12_AbsentPriceSkipsVenuePair ==
  [][\A n \in FrameIds :
       FrameStepped(n) =>
         \A o \in Emitted :
           \A venue \in {o.buyExchange, o.sellExchange}, type \in {"bid", "ask"} :
             getBestPrice(orderbooks', o.pair, venue, type) # Null]_vars

\* C13: the list of opportunities a scan returns names no direction (pair,
\* buy venue, sell venue) twice.
C13_EachDirectionOnce ==
  \A n \in FrameIds :
    \A i, j \in 1..Len(frames[n].list) :
      (/\ i # j
       /\ frames[n].list[i].pair = frames[n].list[j].pair
       /\ frames[n].list[i].buyExchange = frames[n].list[j].buyExchange) =>
        frames[n].list[i].sellExchange # frames[n].list[j].sellExchange

\* C14: a step of checkArbitrageOpportunities leaves the store and the
\* ledger as they are and calls no marketBuy and no marketSell.
C14_ScanHasNoSideEffect ==
  [][\A n \in FrameIds :
       FrameStepped(n) =>
         /\ orderbooks' = orderbooks
         /\ performance' = performance
         /\ calls' = calls]_vars

\* the ledger of a bot that has not traded (constructor, lines 24-31)
FreshLedger ==
  [totalTrades |-> 0, successfulTrades |-> 0, failedTrades |-> 0,
   totalProfit |-> RatInt(0)]

\* the opportunity of a direct call of simulateArbitrage
SimulatedOpportunity(sellPrice, buyPrice) ==
  [NoOpportunity EXCEPT !.pair = tradingPairs[1],
     !.buyExchange = ConfiguredVenues[1], !.sellExchange = ConfiguredVenues[2],
     !.buyPrice = buyPrice, !.sellPrice = sellPrice,
     !.spread = calculateSpread(sellPrice, buyPrice)]

\* this step is a call of simulateArbitrage (every call changes the ledger)
Simulated == calc'.op = "simulateArbitrage" /\ performance' # performance

\* C21: a call of simulateArbitrage returns the profit the same opportunity
\* yields on a ledger that has seen no trade, and the profit the call before
\* it returned when that call had the same prices: the ledger accumulated
\* in between has no part in the result.
C21_SimulationDeterministic ==
  [][Simulated =>
       /\ calc'.out =
            simulateArbitrage(FreshLedger,
                              SimulatedOpportunity(calc'.sellPrice,
                                                   calc'.buyPrice))[2].profit
       /\ (/\ calc.op = "simulateArbitrage"
           /\ calc.sellPrice = calc'.sellPrice
           /\ calc.buyPrice = calc'.buyPrice) => calc'.out = calc.out]_vars

\* the second of two simulations of sell 128 / buy 125: the ledger holds the
\* profit of the first, the call returned the same profit again
C21_Witness ==
  /\ calc.op = "simulateArbitrage"
  /\ calc.sellPrice = 128 /\ calc.buyPrice = 125
  /\ performance.successfulTrades = 2
  /\ calc.out = Rat(21976, 10000)
  /\ performance.totalProfit = Rat(2 * 21976, 10000)

\* the prices of the call are present and positive
ValidInputs(call) ==
  /\ call.sellPrice # Null /\ call.sellPrice > 0
  /\ call.buyPrice # Null /\ call.buyPrice > 0

\* C22: a simulated execution returns success and adds 1 to totalTrades and
\* to successfulTrades, leaving failedTrades alone, exactly when both prices
\* are present and positive; with a null or zero price it returns a failure
\* and leaves totalProfit as it was.
C22_SucceedsIffValid ==
  [][Simulated =>
       /\ ValidInputs(calc') <=>
            /\ lastReturn'.result.kind = "success"
            /\ performance'.totalTrades = performance.totalTrades + 1
            /\ performance'.successfulTrades = performance.successfulTrades + 1
            /\ performance'.failedTrades = performance.failedTrades
       /\ ~ValidInputs(calc') =>
            /\ lastReturn'.result.kind = "failure"
            /\ performance'.totalProfit = performance.totalProfit]_vars

\* executed quantity times price of an order, as the venue reported them
Notional(order) == RatMul(RatInt(order.executedQty), RatInt(order.price))

\* C23: when the sell of a live pair is filled, the profit is the notional of
\* the sell minus the notional of the buy, both as the venues reported them;
\* totalProfit grows by exactly it, totalTrades and successfulTrades by 1;
\* and the completed call returns it.
C23_ProfitFromVenueReports ==
  [][\A n \in FrameIds :
       /\ (/\ frames[n].pc = "awaitSell" /\ FrameStepped(n)
           /\ frames'[n].sellOrder.success) =>
            LET profit == RatSub(Notional(frames'[n].sellOrder),
                                 Notional(frames[n].buyOrder))
            IN  /\ frames'[n].profit = profit
                /\ performance'.totalProfit =
                     RatAdd(performance.totalProfit, profit)
                /\ performance'.totalTrades = performance.totalTrades + 1
                /\ performance'.successfulTrades =
                     performance.successfulTrades + 1
       /\ (/\ frames[n].pc = "awaitBalances" /\ FrameStepped(n)
           /\ frames'[n].pc # "awaitBalances") =>
            lastReturn'.result =
              Success(RatSub(Notional(frames[n].sellOrder),
                             Notional(frames[n].buyOrder)))]_vars

\* a completed pair quoted at 1001 / 1020 and filled at 1002 / 1019: the
\* profit is 2 * 1019 - 2 * 1002 = 34, not the 38 of the quoted prices
C23_Witness ==
  /\ lastReturn.how = "completed"
  /\ lastReturn.result = Success(RatInt(34))
  /\ performance.totalProfit = RatInt(34)
  /\ performance.totalTrades = 1 /\ performance.successfulTrades = 1
  /\ \E k \in 1..Len(opportunities) :
       opportunities[k].buyPrice = 1001 /\ opportunities[k].sellPrice = 1020

\* frame n got the last venue answer of its execution attempt in this step:
\* a buy that is not followed by a sell, or the answer of the sell
AttemptEnded(n) ==
  /\ FrameStepped(n)
  /\ \/ frames[n].pc = "awaitBuy" /\ frames'[n].pc # "awaitSell"
     \/ frames[n].pc = "awaitSell"

\* C24: when a live execution attempt that reached the buy leg ends, with a
\* completed pair, a failed buy or a failed sell, updateBalances is called:
\* the frame goes on to await getBalances.
C24_BalancesRefreshedAfterAttempt ==
  [][\A n \in FrameIds :
       AttemptEnded(n) => /\ frames'[n].pc = "awaitBalances"
                          /\ frames'[n].b = 1]_vars

\* this step is a call of executeArbitrage on its own
Executed == fired' = fired + 1 /\ calc'.op = "executeArbitrage"

\* C25: in live trading, a call of executeArbitrage that finds no connector
\* for the buy venue or for the sell venue places no order and returns a
\* failure result.
C25_MissingAdapterReported ==
  [][(/\ Executed
      /\ ~paperTrading /\ running
      /\ RatGeq(calc'.out, minSpreadPercentage)
      /\ \/ calc'.buyExchange \notin Names
         \/ calc'.sellExchange \notin Names) =>
       /\ calls' = calls
       /\ lastReturn'.result.kind = "failure"]_vars

\* the venues on which this step called `method`
CalledIn(method) == {v \in VenueSet : calls'[v][method] # calls[v][method]}

\* C26: a call of executeArbitrage issues marketBuy at most once, when it
\* starts, and marketSell at most once, on the answer of its buy; no answer
\* of a venue (a fill, a rejection, a throw) makes it issue either again.
C26_NoRetry ==
  [][/\ \A v \in VenueSet :
          /\ calls'[v].marketBuy \in {calls[v].marketBuy,
                                      calls[v].marketBuy + 1}
          /\ calls'[v].marketSell \in {calls[v].marketSell,
                                       calls[v].marketSell + 1}
     /\ Cardinality(CalledIn("marketBuy")) <= 1
     /\ Cardinality(CalledIn("marketSell")) <= 1
     /\ CalledIn("marketBuy") # {} =>
          \E n \in FrameIds : frames[n].pc = "idle" /\ frames'[n].pc = "awaitBuy"
     /\ CalledIn("marketSell") # {} =>
          \E n \in FrameIds : /\ frames[n].pc = "awaitBuy"
                              /\ frames'[n].pc = "awaitSell"
     /\ \A n \in FrameIds :
          /\ (frames'[n].pc = "awaitBuy" /\ frames[n].pc # "awaitBuy") =>
               frames[n].pc = "idle"
          /\ (frames'[n].pc = "awaitSell" /\ frames[n].pc # "awaitSell") =>
               frames[n].pc = "awaitBuy"]_vars

\* one call whose buy was rejected has returned: one marketBuy was issued,
\* no second one and no sell
C26_Witness ==
  /\ fired = 1
  /\ calc.op = "executeArbitrage"
  /\ frames[1].pc = "done"
  /\ lastReturn.how = "buyRejected"
  /\ Sum("marketBuy") = 1 /\ Sum("marketSell") = 0

\* C27: while the engine is running, a call of start() does nothing: no
\* connector is added and no call frame of start() is opened to initialise
\* the connectors and subscribe the feeds again.
C27_StartWhileRunningIsNoOp ==
  [][running =>
       /\ exchanges' = exchanges
       /\ Len(startFrames') <= Len(startFrames)]_vars

\* C28: on a stopped engine a call of stop() does nothing: no call frame of
\* stop() is opened to close the feeds of the connectors, and no timer is
\* cancelled.
C28_StopWhileStoppedIsNoOp ==
  [][~running =>
       /\ Len(stopFrames') <= Len(stopFrames)
       /\ timers' >= timers]_vars

\* the state of the engine: starting while a call of start() is awaiting a
\* connector, stopping while a call of stop() is, else what this.running says
EngineState ==
  IF Len(startFrames) > 0 THEN "starting"
  ELSE IF Len(stopFrames) > 0 THEN "stopping"
  ELSE IF running THEN "running" ELSE "stopped"

\* stopped -> starting -> running -> stopping -> stopped, and back to stopped
\* from a start() that failed
EngineTransitions ==
  {<<"stopped", "starting">>, <<"starting", "running">>,
   <<"running", "stopping">>, <<"stopping", "stopped">>,
   <<"starting", "stopped">>}

\* C29: the engine moves stopped, starting, running, stopping, stopped in
\* that order; this.running is set only once the connectors are initialised
\* and the feeds subscribed; start() is accepted only when stopped and
\* stop() only when running.
C29_LifecycleInOrder ==
  [][/\ EngineState' # EngineState =>
          <<EngineState, EngineState'>> \in EngineTransitions
     /\ running' => (Len(startFrames') = 0 /\ Names \subseteq feeds')
     /\ Len(startFrames') > Len(startFrames) => EngineState = "stopped"
     /\ Len(stopFrames') > Len(stopFrames) => EngineState = "running"]_vars

\* the engine is not running and every call of stop() has returned
Stopped == ~running /\ Len(stopFrames) = 0

\* C30: once stop() has returned and until start() is called again, no
\* interval timer is set and no tick runs, also when stop() was called while
\* start() was awaiting a connector.
C30_NoTimerAfterStop ==
  [][/\ (~running' /\ Len(stopFrames') = 0) => timers' = 0
     /\ Stopped => fired' = fired]_vars

\* the calls of start() in which init() of every connector reported a failure
AllInitsFailed(sf) ==
  {idx \in 1..Len(sf) : sf[idx].pc = "balances"
                          /\ sf[idx].failed = Len(exchanges)}

\* C31: a start() in which init() of every connector reported a failure
\* leaves the engine not running and sets no interval timer.
C31_NoRunWithoutVenues ==
  [][/\ AllInitsFailed(startFrames') # {} => ~running'
     /\ timers' > timers =>
          \E idx \in 1..Len(startFrames) :
            /\ startFrames[idx].pc = "balances"
            /\ startFrames[idx].failed < Len(exchanges)]_vars

\* C32: every order book in the store carries the time at which it was
\* stored, whether a feed pushed it or a scan fetched it.
C32_EveryBookStamped ==
  \A pair \in PairSet :
    \A k \in 1..Len(orderbooks[pair]) :
      /\ orderbooks[pair][k].timestamp # Null
      /\ orderbooks[pair][k].timestamp \in 0..now

\* the number of entries getPerformanceStats reports as recent
\* (this.opportunities.slice(-5), part_004:618)
recentLimit == 5

\* C33: the history of opportunities never holds more than the recent
\* entries that are reported.
C33_HistoryBounded == Len(opportunities) <= recentLimit

\* C34: whatever a venue answers to getOrderBook (a book, nothing, a throw),
\* the tick goes on: when its scan ends it has compared the venues that have
\* data and emitted the directions that qualify, and the engine is as
\* running as before.
C34_FetchFailureSkipsOnly ==
  [][\A n \in FrameIds :
       (/\ frames[n].pc = "awaitBook" /\ FrameStepped(n)
        /\ frames'[n].pc \notin Suspended) =>
         /\ frames'[n].pc = "done"
         /\ {Claimed(o) : o \in Emitted} = Qualifying(orderbooks', tradingPairs[1])
         /\ running' = running]_vars

\* C35: a depositToken(token, amount) whose token transfer succeeds, as it
\* does for a user who approved and holds the amount, adds exactly amount to
\* tokens[token][user] and to the exchange's balance in the token and emits
\* Deposit(token, user, amount, new tokens[token][user]); one whose transfer
\* fails reverts and leaves tokens, the token balances and the log unchanged.
Deposited == chain'.deposits = chain.deposits + 1

C35_DepositCreditsOrReverts ==
  [][Deposited =>
       LET token == chain'.call.token
           user == chain'.call.user
           amount == chain'.call.amount
       IN  /\ (amount <= chain.allowance[user]
                 /\ amount <= chain.balanceOf[user]) =>
                chain'.transfer = "true"
           /\ chain'.transfer = "true" =>
                /\ ~chain'.reverted
                /\ chain'.tokens =
                     [chain.tokens EXCEPT ![token][user] = @ + amount]
                /\ chain'.balanceOf["exchange"] =
                     chain.balanceOf["exchange"] + amount
                /\ chain'.logs =
                     Append(chain.logs,
                            Deposit(token, user, amount,
                                    chain'.tokens[token][user]))
           /\ chain'.transfer # "true" =>
                /\ chain'.reverted
                /\ chain'.tokens = chain.tokens
                /\ chain'.balanceOf = chain.balanceOf
                /\ chain'.logs = chain.logs]_vars

\* user1 has deposited 10 and then 60 tokens, and a further deposit failed
C35_Witness ==
  /\ chain.deposits = 3
  /\ chain.reverted
  /\ chain.call.user = "user1"
  /\ chain.tokens["FToken"]["user1"] = 70
  /\ chain.balanceOf["exchange"] = 70
  /\ Len(chain.logs) = 2
  /\ chain.logs[2] = Deposit("FToken", "user1", 60, 70)

\* C36: in every state of the ledger totalTrades is the sum of
\* successfulTrades and failedTrades, so that successfulTrades / totalTrades
\* counts the failed attempts.
C36_TotalIsSuccessesPlusFailures ==
  performance.totalTrades =
    performance.successfulTrades + performance.failedTrades

\* C37: every opportunity a scan emits names two different venues as
\* buyExchange and sellExchange, also after start() has run setupExchanges
\* on a constructed bot.
C37_TwoDifferentVenues ==
  \A k \in 1..Len(opportunities) :
    opportunities[k].buyExchange # opportunities[k].sellExchange

\* C38: where no venue pushes its books, every tick fetches the venues'
\* order books again: the scan a timer firing starts waits for getOrderBook
\* of the first venue before it compares any prices.
C38_EveryTickFetches ==
  [][fired' = fired + 1 =>
       /\ frames'[1].pc = "awaitBook"
       /\ opportunities' = opportunities]_vars

\* C39: for positive prices the net profit simulateArbitrage computes is
\* positive exactly when calculateSpread(sellPrice, buyPrice) is positive,
\* and zero exactly when it is zero.
C39_ProfitAndSpreadAgreeInSign ==
  calc.op = "simulateArbitrageSigned" =>
    /\ calc.netProfit.sign = 1 <=> RatLt(RatInt(0), calc.spread)
    /\ calc.netProfit.sign = 0 <=>
         (~RatLt(RatInt(0), calc.spread) /\ ~RatLt(calc.spread, RatInt(0)))

\* C40: a bot started through index.js with PAPER_TRADING not set runs in
\* paper-trading mode, and market orders are placed only where PAPER_TRADING
\* was set to false.
C40_PaperUnlessSetToFalse ==
  /\ env = Unset => paperTrading
  /\ (\E v \in VenueSet : calls[v].marketBuy + calls[v].marketSell > 0) =>
       env = "false"

====
